---- MODULE Spec2Model ----
(***************************************************************************)
(* Model of the run orchestration core of uipath-dev-python:               *)
(*   - RunService        (src/uipath/dev/services/run_service.py)          *)
(*   - EvalRunService    (src/uipath/dev/services/eval_run_service.py)     *)
(*   - TextualDebugBridge (src/uipath/dev/services/debug_bridge.py)        *)
(* The event loop is single-threaded and cooperative: every action below   *)
(* is the code that runs between two suspension points (await).            *)
(***************************************************************************)
EXTENDS Naturals, Sequences, FiniteSets, TLC

VARIABLES
    rs,         \* RunService: the run table, the ExecutionRun objects, the observers
    pc,         \* per run object: where its execute() task stands
    loc,        \* per run object: locals of the execute() in flight
    calls,      \* per run object: history of the runtime calls made for it
    execs,      \* number of execute() invocations started so far
    msgs,       \* number of handle_log / handle_trace calls made from outside
    es,         \* EvalRunService: the run table, the EvalRun objects, the observers
    epc,        \* per EvalRun object: where its execute() task stands
    ecall,      \* per EvalRun object: whether the last await of its execute() raised
    br,         \* TextualDebugBridge: fields and the asyncio.Event
    co,         \* per coroutine: where it stands in wait_for_resume()
    lastOp,     \* the bridge operation performed last, and whom it released
    cb,         \* TextualDebugBridge: the on_* callbacks, and the notifications emitted
    evalrun,    \* an EvalRun object, as built, deserialized or read by its properties
    ret,        \* what the last call of a model or store operation returned
    chat,       \* ChatEvents: the aggregated messages, and the events added
    files       \* the eval-sets directory: file stem -> stored definition

vars == <<rs, pc, loc, calls, execs, msgs, es, epc, ecall, br, co, lastOp,
          cb, evalrun, ret, chat, files>>
runVars == <<rs, pc, loc, calls, execs, msgs>>
evalVars == <<es, epc, ecall>>
bridgeVars == <<br, co, lastOp>>
otherVars == <<cb, evalrun, ret, chat, files>>

(***************************************************************************)
(* Bounds                                                                  *)
(***************************************************************************)
MaxExec == 2        \* execute() invocations in one behaviour (SpecExec)
MaxRouteExec == 2   \* execute() invocations in one behaviour (SpecRoute)
MaxMsgs == 3        \* outside handle_log / handle_trace calls (SpecRoute)
MaxTraces == 3      \* handle_trace calls (SpecTrace)
MaxEvalExec == 2    \* EvalRunService.execute() invocations (SpecEval)
MaxParseExec == 1   \* EvalRunService.execute() invocations (SpecParse)
MaxFailExec == 2    \* execute() invocations of both services (SpecFailure)
MaxObs == 3         \* outside handle_log / handle_trace calls (SpecObs)
MaxResults == 2     \* evaluation results of the EvalRun (SpecModel)
MaxEmit == 2        \* emit_* calls on the bridge (SpecNotify)
MaxEvents == 3      \* ChatEvents.add calls (SpecChat)
MaxRegister == 3    \* register_run calls on each service (SpecRegister)
NumCo == 2          \* coroutines that call wait_for_resume() on the bridge

(***************************************************************************)
(* Values                                                                  *)
(***************************************************************************)
None == "None"
NoRun == "NoRun"

\* The ExecutionRun objects of a behaviour, and the id each carries.
Runs == {"A", "B"}
IdOf(o) == o
\* run_id values a log or trace message may carry: "Z" is no run's id.
RunIds == {"A", "B", "Z"}

\* result.output as the runtime hands it back: nothing, a mapping, a BaseModel.
RawOutputs == {"None", "X", "Model(X)"}
IsBaseModel(v) == v = "Model(X)"
model_dump(v) == IF v = "Model(X)" THEN "X" ELSE v
\* Python truthiness of run.output_data
Truthy(v) == v \notin {"None", "{}"}

\* The exception classes execute() tells apart.
Exceptions == {"UiPathRuntimeError", "Exception", "BaseException"}

\* UiPathRuntimeResult values, and "no result object".
Results ==
    [status : {"successful", "suspended"}, resume : BOOLEAN, output : RawOutputs]

\* What awaiting runtime.execute may yield.
ExecuteOutcomes ==
    {[kind |-> "result", result |-> r] : r \in Results}
        \cup {[kind |-> "no_result"]}
        \cup {[kind |-> "raise", exc |-> e] : e \in Exceptions}

\* What awaiting runtime_factory.new_runtime may yield.
FactoryOutcomes ==
    {[kind |-> "runtime"]} \cup {[kind |-> "raise", exc |-> e] : e \in Exceptions}

\* run.error when no error is recorded.
NoError == [code |-> None, title |-> None, detail |-> None]

(***************************************************************************)
(* ExecutionRun                                                            *)
(***************************************************************************)
InitRun(o) ==
    [id |-> IdOf(o), status |-> "pending",
     input_data |-> "I", resume_data |-> "R",
     output_data |-> None, error |-> NoError,
     start_time |-> None, end_time |-> None,
     logs |-> <<>>, traces |-> <<>>]

\* TraceMessage: the fields the services read, and one that tells two
\* messages of a span apart.
SpanIds == {"s1", "s2"}
TraceMessage(run_id, span_id, status) ==
    [run_id |-> run_id, span_id |-> span_id, status |-> status]
NoMessage == TraceMessage(None, None, None)
TraceMessages ==
    {TraceMessage(i, s, t) : i \in RunIds, s \in SpanIds, t \in {"started", "completed"}}

LogMessage(run_id, level, message) ==
    [run_id |-> run_id, level |-> level, message |-> message]

(***************************************************************************)
(* RunService: the synchronous helpers, as functions of the service state  *)
(* st = [runs, run, stale, hist]                                           *)
(*   runs  : id -> run object registered under it (self.runs)              *)
(*   run   : run object -> its fields                                      *)
(*   stale : run object -> a field of {status, output_data, error,         *)
(*           end_time} was written since the last on_run_updated(run)      *)
(*   hist  : run object -> the values its status took, in order            *)
(*   recv  : run_id, span_id -> the last trace message handle_trace got    *)
(*   on_run_updated, on_log, on_trace : the observer callbacks; each is    *)
(*           None (set = FALSE) or a callable, of which the model keeps    *)
(*           the arguments it was called with, in order (seen)             *)
(***************************************************************************)
\* run_service.py:40-42: the callbacks default to None
NoObserver == [set |-> FALSE, seen |-> <<>>]
Observer == [set |-> TRUE, seen |-> <<>>]
\* `if self.on_x is not None: self.on_x(arg)`
Notify(obs, arg) ==
    IF obs.set THEN [obs EXCEPT !.seen = Append(@, arg)] ELSE obs

InitService ==
    [runs |-> [i \in RunIds |-> NoRun],
     run |-> [o \in Runs |-> InitRun(o)],
     stale |-> [o \in Runs |-> FALSE],
     hist |-> [o \in Runs |-> <<"pending">>],
     recv |-> [i \in RunIds |-> [s \in SpanIds |-> NoMessage]],
     on_run_updated |-> NoObserver, on_log |-> NoObserver, on_trace |-> NoObserver]

\* run_service.py:175 _emit_run_updated
EmitRunUpdated(st, o) ==
    [st EXCEPT !.runs[st.run[o].id] = o, !.stale[o] = FALSE,
               !.on_run_updated = Notify(@, o)]

\* run_service.py:66 get_run
GetRunFallback(st, id) ==
    IF st.runs[id] # NoRun \/ \A i \in RunIds : st.runs[i] = NoRun
    THEN st.runs[id]
    ELSE st.runs[CHOOSE i \in RunIds : st.runs[i] # NoRun]
GetRun(st, id) == st.runs[id]

\* run_service.py:148 handle_log
HandleLogPrepend(st, m) ==
    LET o == GetRun(st, m.run_id)
        s1 == IF o # NoRun
              THEN EmitRunUpdated([st EXCEPT !.run[o].logs = <<m>> \o @], o)
              ELSE st
    IN  [s1 EXCEPT !.on_log = Notify(@, m)]
HandleLog(st, m) ==
    LET o == GetRun(st, m.run_id)
        s1 == IF o # NoRun
              THEN EmitRunUpdated([st EXCEPT !.run[o].logs = Append(@, m)], o)
              ELSE st
    IN  [s1 EXCEPT !.on_log = Notify(@, m)]

\* run_service.py:163-168: replace the first entry with the span_id, else append
UpsertAppend(traces, m) == Append(traces, m)
Upsert(traces, m) ==
    LET hits == {i \in 1..Len(traces) : traces[i].span_id = m.span_id}
    IN  IF hits # {}
        THEN LET i == CHOOSE j \in hits : \A k \in hits : j <= k
             IN  [traces EXCEPT ![i] = m]
        ELSE Append(traces, m)

\* run_service.py:158 handle_trace
HandleTrace(st, m) ==
    LET o == GetRun(st, m.run_id)
        s1 == IF o # NoRun
              THEN EmitRunUpdated([st EXCEPT !.run[o].traces = Upsert(@, m)], o)
              ELSE st
    IN  [s1 EXCEPT !.on_trace = Notify(@, m)]

\* run_service.py:181 _add_info_log
AddInfoLog(st, o, message) ==
    HandleLog(st, LogMessage(st.run[o].id, "INFO", message))

\* run_service.py:190 _add_error_log
AddErrorLogNone(st, o) == st
AddErrorLog(st, o) ==
    HandleLog(st, LogMessage(st.run[o].id, "ERROR", "traceback"))

\* Assignments to the fields the observers are told about.
SetStatus(st, o, s) ==
    [st EXCEPT !.run[o].status = s, !.stale[o] = TRUE, !.hist[o] = Append(@, s)]
SetField(st, o, f, v) ==
    [st EXCEPT !.run[o][f] = v, !.stale[o] = TRUE]

\* run_service.py:61 register_run
RegisterRunReset(st, o) ==
    EmitRunUpdated([st EXCEPT !.runs[st.run[o].id] = o, !.run[o].status = "pending"], o)
RegisterRunNotifyTwice(st, o) ==
    EmitRunUpdated(EmitRunUpdated([st EXCEPT !.runs[st.run[o].id] = o], o), o)
RegisterRun(st, o) ==
    EmitRunUpdated([st EXCEPT !.runs[st.run[o].id] = o], o)

(***************************************************************************)
(* RunService.execute: the code between its suspension points              *)
(***************************************************************************)
Idle(o) == pc[o] \in {"idle", "returned", "raised"}

\* run_service.py:145-146, the statements after the try block
FinishWithoutEmit(st, o) == [st EXCEPT !.runs[st.run[o].id] = o]
Finish(st, o) ==
    EmitRunUpdated([st EXCEPT !.runs[st.run[o].id] = o], o)

\* run_service.py:115-120: what is stored for result.output
OutputDataEmpty(v) == "{}"
OutputData(v) ==
    IF v = "None" THEN "{}"
    ELSE IF IsBaseModel(v) THEN model_dump(v)
    ELSE v

\* The same with every SUSPENDED result taken as a suspension.
OnResultSuspendAny(st, o, oc) ==
    LET s1 == IF oc.kind = "result"
              THEN IF oc.result.status = "suspended"
                   THEN SetStatus(st, o, "suspended")
                   ELSE SetStatus(
                            SetField(st, o, "output_data", OutputData(oc.result.output)),
                            o, "completed")
              ELSE st
        s2 == IF oc.kind = "result" /\ Truthy(s1.run[o].output_data)
              THEN AddInfoLog(s1, o, "Execution result")
              ELSE s1
        s3 == AddInfoLog(s2, o, "Execution completed successfully")
    IN  SetField(s3, o, "end_time", "t")
\* run_service.py:108-127: the rest of the try block once the result is there
OnResult(st, o, oc) ==
    LET s1 == IF oc.kind = "result"
              THEN IF oc.result.status = "suspended" /\ oc.result.resume
                   THEN SetStatus(st, o, "suspended")
                   ELSE SetStatus(
                            SetField(st, o, "output_data", OutputData(oc.result.output)),
                            o, "completed")
              ELSE st
        s2 == IF oc.kind = "result" /\ Truthy(s1.run[o].output_data)
              THEN AddInfoLog(s1, o, "Execution result")
              ELSE s1
        s3 == AddInfoLog(s2, o, "Execution completed successfully")
    IN  SetField(s3, o, "end_time", "t")

\* e.error_info of the structured error the runtime raises
error_info == [code |-> "E.code", title |-> "E.title", detail |-> "E.detail"]

\* run_service.py:129-143: the two except clauses
ErrorInfoGeneric(exc) ==
    [code |-> "Unknown", title |-> "str(e)", detail |-> "format_exc"]
ErrorInfo(exc) ==
    IF exc = "UiPathRuntimeError"
    THEN error_info
    ELSE [code |-> "Unknown", title |-> "str(e)", detail |-> "format_exc"]

OnException(st, o, exc) ==
    LET s1 == AddErrorLog(st, o)
        s2 == SetStatus(s1, o, "failed")
        s3 == SetField(s2, o, "end_time", "t")
    IN  SetField(s3, o, "error", ErrorInfo(exc))

\* except UiPathRuntimeError / except Exception: anything else leaves execute()
Caught(exc) == exc \in {"UiPathRuntimeError", "Exception"}

\* register_run(run), called by the console and the server before execute()
Register(o) ==
    /\ rs' = RegisterRun(rs, o)
    /\ UNCHANGED <<pc, loc, calls, execs, msgs, evalVars, bridgeVars, otherVars>>

\* run_service.py:79-85: the input handed to the runtime
ExecutionInputFresh(run) == run.input_data
ExecutionInput(run) ==
    IF run.status = "suspended" THEN run.resume_data ELSE run.input_data

\* run_service.py:75-97: entry of execute() up to `await new_runtime`
ExecBegin(o, budget) ==
    /\ Idle(o)
    /\ execs < budget
    /\ LET resume == rs.run[o].status = "suspended"
           input == ExecutionInput(rs.run[o])
           s1 == AddInfoLog(rs, o, IF resume THEN "Resuming execution"
                                             ELSE "Starting execution")
           s2 == SetStatus(s1, o, "running")
           s3 == [s2 EXCEPT !.run[o].start_time = "t"]
       IN  /\ rs' = EmitRunUpdated(s3, o)
           /\ loc' = [loc EXCEPT ![o] = [input |-> input, resume |-> resume]]
    /\ pc' = [pc EXCEPT ![o] = "new_runtime"]
    /\ execs' = execs + 1
    /\ UNCHANGED <<calls, msgs, evalVars, bridgeVars, otherVars>>

\* The exit of execute() on an exception raised at one of its awaits.
Raise(o, exc) ==
    IF Caught(exc)
    THEN /\ rs' = Finish(OnException(rs, o, exc), o)
         /\ pc' = [pc EXCEPT ![o] = "returned"]
    ELSE /\ rs' = rs
         /\ pc' = [pc EXCEPT ![o] = "raised"]

\* run_service.py:97: `await self.runtime_factory.new_runtime(...)` completes
NewRuntime(o, oc) ==
    /\ pc[o] = "new_runtime"
    /\ IF oc.kind = "runtime"
       THEN /\ pc' = [pc EXCEPT ![o] = "execute"]
            /\ UNCHANGED <<rs, calls>>
       ELSE /\ Raise(o, oc.exc)
            /\ calls' = [calls EXCEPT ![o] = Append(@,
                  [call |-> "new_runtime", input |-> None, resume |-> FALSE,
                   outcome |-> oc])]
    /\ UNCHANGED <<loc, execs, msgs, evalVars, bridgeVars, otherVars>>

\* run_service.py:106-146: `await execution_runtime.execute(...)` completes
RuntimeExecute(o, oc) ==
    /\ pc[o] = "execute"
    /\ calls' = [calls EXCEPT ![o] = Append(@,
          [call |-> "execute", input |-> loc[o].input, resume |-> loc[o].resume,
           outcome |-> oc])]
    /\ IF oc.kind = "raise"
       THEN Raise(o, oc.exc)
       ELSE /\ rs' = Finish(OnResult(rs, o, oc), o)
            /\ pc' = [pc EXCEPT ![o] = "returned"]
    /\ UNCHANGED <<loc, execs, msgs, evalVars, bridgeVars, otherVars>>


(***************************************************************************)
(* EvalRunService: the run table and its EvalRun objects                   *)
(* st = [runs, run, stale, recv, observers] as for RunService, and         *)
(*   exc : run object -> the exception its last execute() let out, or None *)
(***************************************************************************)
\* eval_run.py:43-85 EvalRun.__init__: start_time is stamped at construction.
\* Run A is built without an output_file, run B with one.
InitEvalRun(o) ==
    [id |-> IdOf(o), status |-> "pending",
     start_time |-> "t0", end_time |-> None,
     evaluation_results |-> <<>>, error |-> NoError,
     output_file |-> IF o = "A" THEN None ELSE "out.json",
     logs |-> <<>>, traces |-> <<>>]

InitEvalService ==
    [runs |-> [i \in RunIds |-> NoRun],
     run |-> [o \in Runs |-> InitEvalRun(o)],
     stale |-> [o \in Runs |-> FALSE],
     exc |-> [o \in Runs |-> None],
     recv |-> [i \in RunIds |-> [s \in SpanIds |-> NoMessage]],
     on_run_updated |-> NoObserver, on_log |-> NoObserver, on_trace |-> NoObserver]

\* eval_run_service.py:193 _emit_run_updated
EvalEmitRunUpdated(st, o) ==
    [st EXCEPT !.runs[st.run[o].id] = o, !.stale[o] = FALSE,
               !.on_run_updated = Notify(@, o)]

\* eval_run_service.py:71 register_run
EvalRegisterRun(st, o) ==
    EvalEmitRunUpdated([st EXCEPT !.runs[st.run[o].id] = o], o)

\* eval_run_service.py:76 get_run
EvalGetRun(st, id) == st.runs[id]

\* eval_run_service.py:214-219: the same upsert loop as RunService
EvalUpsert(traces, m) ==
    LET hits == {i \in 1..Len(traces) : traces[i].span_id = m.span_id}
    IN  IF hits # {}
        THEN LET i == CHOOSE j \in hits : \A k \in hits : j <= k
             IN  [traces EXCEPT ![i] = m]
        ELSE Append(traces, m)

\* eval_run_service.py:209 handle_trace
EvalHandleTrace(st, m) ==
    LET o == EvalGetRun(st, m.run_id)
        s1 == IF o # NoRun
              THEN EvalEmitRunUpdated([st EXCEPT !.run[o].traces = EvalUpsert(@, m)], o)
              ELSE st
    IN  [s1 EXCEPT !.on_trace = Notify(@, m)]

\* eval_run_service.py:199 handle_log
EvalHandleLog(st, m) ==
    LET o == EvalGetRun(st, m.run_id)
        s1 == IF o # NoRun
              THEN EvalEmitRunUpdated([st EXCEPT !.run[o].logs = Append(@, m)], o)
              ELSE st
    IN  [s1 EXCEPT !.on_log = Notify(@, m)]

\* eval_run_service.py:226 _add_info_log
EvalAddInfoLog(st, o, message) ==
    EvalHandleLog(st, LogMessage(st.run[o].id, "INFO", message))

\* eval_run_service.py:235 _add_error_log
EvalAddErrorLog(st, o, message) ==
    EvalHandleLog(st, LogMessage(st.run[o].id, "ERROR", message))

\* Assignments to the fields the observers are told about.
EvalSetField(st, o, f, v) ==
    [st EXCEPT !.run[o][f] = v, !.stale[o] = TRUE]

(***************************************************************************)
(* The result payload of an evaluation, as _parse_eval_results reads it    *)
(***************************************************************************)
\* A member of a JSON object as dict.get(key, default) meets it: the key is
\* missing, its value is null, or it has a value.
Missing(filler) == [p |-> "missing", v |-> filler]
Null(filler) == [p |-> "null", v |-> filler]
Value(v) == [p |-> "value", v |-> v]

\* A Python number or None, as stored in EvaluatorResult.score. Scores are
\* counted in hundredths: 100 is 1.0.
Num(n) == [none |-> FALSE, n |-> n]
PyNone == [none |-> TRUE, n |-> 0]

\* dict.get(key, default) for a text member and for the score
GetStr(f, default) ==
    IF f.p = "missing" THEN default ELSE IF f.p = "null" THEN None ELSE f.v
GetNum(f, default) ==
    IF f.p = "missing" THEN Num(default) ELSE IF f.p = "null" THEN PyNone ELSE Num(f.v)

\* JSON values: t is the Python type json.loads gives ("none" for null and
\* for no value at all), n the number of members, which decides truthiness.
JsonValue(t, n, esr) == [t |-> t, n |-> n, evaluationSetResults |-> esr]
NoData == JsonValue("none", 0, Missing(<<>>))
PyTruth(d) == d.t # "none" /\ d.n > 0

\* The members of the payload
RunResultJson(name, result) == [evaluatorName |-> name, result |-> result]
EntryJson(name, id, runs) ==
    [evaluationName |-> name, evaluationId |-> id, evaluationRunResults |-> runs]
ScoreJson(score) == [score |-> score]

GoodRunResult == RunResultJson(Value("ev1"), Value(ScoreJson(Value(100))))
HalfRunResult == RunResultJson(Value("ev2"), Value(ScoreJson(Value(50))))
BareRunResult == RunResultJson(Missing(""), Missing(ScoreJson(Missing(0))))
NullResultRunResult == RunResultJson(Value("ev1"), Null(ScoreJson(Missing(0))))
NullScoreRunResult == RunResultJson(Value("ev1"), Value(ScoreJson(Null(0))))

GoodEntry(n) == EntryJson(Value(n), Value(n), Value(<<GoodRunResult, HalfRunResult>>))
BareEntry == EntryJson(Missing(""), Missing(""), Missing(<<>>))
NullNameEntry == EntryJson(Null(""), Missing(""), Value(<<BareRunResult>>))
NullRunsEntry == EntryJson(Value("e2"), Value("e2"), Null(<<>>))
NullResultEntry == EntryJson(Value("e2"), Value("e2"), Value(<<NullResultRunResult>>))
NullScoreEntry == EntryJson(Value("e2"), Value("e2"), Value(<<NullScoreRunResult>>))

Doc(entries) == JsonValue("object", 1, Value(entries))
EmptyObject == JsonValue("object", 0, Missing(<<>>))
OtherObject == JsonValue("object", 1, Missing(<<>>))
NullResultsObject == JsonValue("object", 1, Null(<<>>))
NonEmptyList == JsonValue("list", 1, Missing(<<>>))

\* json.loads / json.load on the texts of the model: ok is FALSE when the
\* text is not JSON (the call raises).
JsonLoads(text) ==
    CASE text = "{}" -> [ok |-> TRUE, data |-> EmptyObject]
      [] text = "null" -> [ok |-> TRUE, data |-> NoData]
      [] text = "[1]" -> [ok |-> TRUE, data |-> NonEmptyList]
      [] text = "{\"x\": 1}" -> [ok |-> TRUE, data |-> OtherObject]
      [] text = "{\"evaluationSetResults\": [m1]}" ->
            [ok |-> TRUE, data |-> Doc(<<GoodEntry("m1")>>)]
      [] text = "{\"evaluationSetResults\": [f1]}" ->
            [ok |-> TRUE, data |-> Doc(<<GoodEntry("f1")>>)]
      [] OTHER -> [ok |-> FALSE, data |-> NoData]

\* results.output as evaluate() hands it back: nothing (no result, no output
\* attribute, or an empty one), a text, a dict, or an object of another type.
NoOutput == [form |-> "absent", text |-> "", data |-> NoData]
StrOutput(text) == [form |-> "str", text |-> text, data |-> NoData]
DictOutput(d) == [form |-> "dict", text |-> "", data |-> d]
OtherOutput == [form |-> "other", text |-> "", data |-> NoData]

EvalOutputs ==
    {NoOutput, OtherOutput}
        \cup {StrOutput(t) : t \in {"not json", "{}", "[1]",
                                    "{\"evaluationSetResults\": [m1]}"}}
        \cup {DictOutput(d) : d \in
                {OtherObject, NullResultsObject,
                 Doc(<<GoodEntry("m1")>>),
                 Doc(<<BareEntry>>), Doc(<<NullNameEntry>>),
                 Doc(<<GoodEntry("m1"), NullRunsEntry>>),
                 Doc(<<NullResultEntry>>), Doc(<<NullScoreEntry>>)}}

\* The file at run.output_file when the results are parsed: not there, or
\* its text.
FileStates ==
    {"missing", "not json", "[1]", "{\"evaluationSetResults\": [f1]}"}

\* EvaluatorResult and EvaluationResult (eval_run.py:16-39), without the
\* members that the payload copies through unread (details, evaluation_time,
\* justification).
EvaluatorResult(id, name, score) ==
    [evaluator_id |-> id, evaluator_name |-> name, score |-> score]
EvaluationResult(id, name, evaluator_results) ==
    [eval_id |-> id, eval_name |-> name, evaluator_results |-> evaluator_results]

\* A step of _parse_eval_results yields the results built so far and the
\* exception it raised, None if it raised none.
Parsed(raised, out) == [raised |-> raised, out |-> out]

\* eval_run_service.py:351-364: the loop over evaluationRunResults
RECURSIVE ParseRunResults(_, _)
ParseRunResults(rrs, acc) ==
    IF rrs = <<>> THEN Parsed(None, acc)
    ELSE LET rr == Head(rrs)
             evaluator_name == GetStr(rr.evaluatorName, "Unknown")
         IN  IF rr.result.p = "null"
             THEN Parsed("AttributeError", acc)
             ELSE LET score == IF rr.result.p = "missing" THEN Num(0)
                               ELSE GetNum(rr.result.v.score, 0)
                  IN  ParseRunResults(Tail(rrs),
                          Append(acc, EvaluatorResult(evaluator_name, evaluator_name, score)))

\* eval_run_service.py:344-366: the loop over evaluationSetResults
RECURSIVE ParseEntries(_, _)
ParseEntries(entries, acc) ==
    IF entries = <<>> THEN Parsed(None, acc)
    ELSE LET e == Head(entries)
             eval_name == GetStr(e.evaluationName, "Unknown")
             eval_id == GetStr(e.evaluationId, eval_name)
         IN  IF e.evaluationRunResults.p = "null"
             THEN Parsed("TypeError", acc)
             ELSE LET rrs == IF e.evaluationRunResults.p = "missing" THEN <<>>
                             ELSE e.evaluationRunResults.v
                      inner == ParseRunResults(rrs, <<>>)
                  IN  IF inner.raised # None
                      THEN Parsed(inner.raised, acc)
                      ELSE ParseEntries(Tail(entries),
                               Append(acc, EvaluationResult(eval_id, eval_name, inner.out)))

\* eval_run_service.py:341-342: data.get("evaluationSetResults", [])
ParseData(data, acc) ==
    IF data.t # "object" THEN Parsed("AttributeError", acc)
    ELSE IF data.evaluationSetResults.p = "null" THEN Parsed("TypeError", acc)
    ELSE IF data.evaluationSetResults.p = "missing" THEN Parsed(None, acc)
    ELSE ParseEntries(data.evaluationSetResults.v, acc)

\* eval_run_service.py:318-326: data from the in-memory result
FromOutput(output) ==
    IF output.form = "str"
    THEN IF JsonLoads(output.text).ok THEN JsonLoads(output.text).data ELSE NoData
    ELSE IF output.form = "dict" THEN output.data
    ELSE NoData

\* eval_run_service.py:331-334: data from the file
FromFile(file) ==
    IF file # "missing" /\ JsonLoads(file).ok THEN JsonLoads(file).data ELSE NoData

\* eval_run_service.py:329: `if not data and output_file`
FileConsultedAlways(output, output_file) == output_file # None
FileConsulted(output, output_file) ==
    ~PyTruth(FromOutput(output)) /\ output_file # None

\* eval_run_service.py:309 _parse_eval_results, on the results the run has
ParseEvalResults(evaluation_results, output, output_file, file) ==
    LET d1 == FromOutput(output)
        d2 == IF FileConsulted(output, output_file) THEN FromFile(file) ELSE d1
        data == IF PyTruth(d2) THEN d2 ELSE d1
    IN  IF ~PyTruth(data)
        THEN Parsed(None, evaluation_results)
        ELSE ParseData(data, evaluation_results)

\* eval_run.py:153 overall_score raises when a score is None: sum() cannot
\* add it.
OverallScoreRaises(evaluation_results) ==
    \E i \in 1..Len(evaluation_results) :
        \E j \in 1..Len(evaluation_results[i].evaluator_results) :
            evaluation_results[i].evaluator_results[j].score.none

(***************************************************************************)
(* EvalRunService.execute: the code between its suspension points          *)
(***************************************************************************)
\* The exception classes execute() tells apart: SystemExit, an Exception
\* (ValueError, and the AttributeError and TypeError of the parsing), and a
\* BaseException that is neither (CancelledError).
EvalExceptions == {"SystemExit", "ValueError", "CancelledError"}
IsException(exc) == exc \in {"ValueError", "AttributeError", "TypeError"}

\* What an await of execute() yielded.
EvalOutcome(kind, exc, output, file) ==
    [kind |-> kind, exc |-> exc, output |-> output, file |-> file]
\* Of the last await of an execute(), the history keeps whether it yielded a
\* value or raised, and what it raised.
Yielded(oc) == [kind |-> oc.kind, exc |-> oc.exc]
NoEvalCall == [kind |-> "none", exc |-> None]

\* eval_run_service.py:110-141: reporting is set up (ok), or the project is
\* no Studio project, which is logged (no_project), or a step raises.
SetupOutcomes ==
    {EvalOutcome(k, None, NoOutput, "missing") : k \in {"ok", "no_project"}}
        \cup {EvalOutcome("raise", e, NoOutput, "missing") : e \in EvalExceptions}

\* eval_run_service.py:144: _execute_eval returns the results, with the
\* output file in some state, or raises.
EvaluateOutcomes ==
    {EvalOutcome("result", None, out, f) : out \in EvalOutputs, f \in FileStates}
        \cup {EvalOutcome("raise", e, NoOutput, "missing") : e \in EvalExceptions}

EvalIdle(o) == epc[o] \in {"idle", "returned", "raised"}

\* eval_run_service.py:157-168: except SystemExit
EvalOnSystemExitUnstamped(st, o) ==
    LET s1 == EvalSetField(st, o, "status", "failed")
        s3 == EvalSetField(s1, o, "error",
                  [code |-> "SystemExit", title |-> "exited with code", detail |-> ""])
        s4 == EvalAddErrorLog(s3, o, "SystemExit caught")
        s5 == EvalEmitRunUpdated(s4, o)
    IN  [s5 EXCEPT !.exc[o] = "RuntimeError"]
\* The same handler ending in a bare `raise`.
EvalOnSystemExitReraised(st, o) ==
    LET s1 == EvalSetField(st, o, "status", "failed")
        s2 == EvalSetField(s1, o, "end_time", "t")
        s3 == EvalSetField(s2, o, "error",
                  [code |-> "SystemExit", title |-> "exited with code", detail |-> ""])
        s4 == EvalAddErrorLog(s3, o, "SystemExit caught")
        s5 == EvalEmitRunUpdated(s4, o)
    IN  [s5 EXCEPT !.exc[o] = "SystemExit"]
EvalOnSystemExit(st, o) ==
    LET s1 == EvalSetField(st, o, "status", "failed")
        s2 == EvalSetField(s1, o, "end_time", "t")
        s3 == EvalSetField(s2, o, "error",
                  [code |-> "SystemExit", title |-> "exited with code", detail |-> ""])
        s4 == EvalAddErrorLog(s3, o, "SystemExit caught")
        s5 == EvalEmitRunUpdated(s4, o)
    IN  [s5 EXCEPT !.exc[o] = "RuntimeError"]

\* eval_run_service.py:170-189: except BaseException
EvalOnBaseExceptionWrapped(st, o, exc) ==
    LET s1 == EvalSetField(st, o, "status", "failed")
        s2 == EvalSetField(s1, o, "end_time", "t")
        s3 == EvalSetField(s2, o, "error",
                  [code |-> exc, title |-> "str(e)", detail |-> "format_exc"])
        s4 == EvalAddErrorLog(s3, o, "Exception caught")
        s5 == EvalAddErrorLog(s4, o, "format_exc")
        s6 == EvalEmitRunUpdated(s5, o)
    IN  [s6 EXCEPT !.exc[o] = "RuntimeError"]
EvalOnBaseException(st, o, exc) ==
    LET s1 == EvalSetField(st, o, "status", "failed")
        s2 == EvalSetField(s1, o, "end_time", "t")
        s3 == EvalSetField(s2, o, "error",
                  [code |-> exc, title |-> "str(e)", detail |-> "format_exc"])
        s4 == EvalAddErrorLog(s3, o, "Exception caught")
        s5 == EvalAddErrorLog(s4, o, "format_exc")
        s6 == EvalEmitRunUpdated(s5, o)
    IN  [s6 EXCEPT !.exc[o] = IF IsException(exc) THEN exc ELSE "RuntimeError"]

\* The exit of execute() on an exception raised in its try block.
EvalRaise(st, o, exc) ==
    IF exc = "SystemExit" THEN EvalOnSystemExit(st, o)
    ELSE EvalOnBaseException(st, o, exc)

\* eval_run_service.py:100-110: entry of execute() up to the first await
EvalExecBegin(o, budget) ==
    /\ EvalIdle(o)
    /\ execs < budget
    /\ LET s1 == EvalAddInfoLog(es, o, "Starting evaluation run...")
           s2 == EvalAddInfoLog(s1, o, "Eval set path")
           s3 == EvalAddInfoLog(s2, o, "Entrypoint")
           s4 == EvalAddInfoLog(s3, o, "Workers")
           s5 == EvalSetField(s4, o, "status", "running")
       IN  es' = [EvalEmitRunUpdated(s5, o) EXCEPT !.exc[o] = None]
    /\ epc' = [epc EXCEPT ![o] = "setup"]
    /\ ecall' = [ecall EXCEPT ![o] = NoEvalCall]
    /\ execs' = execs + 1
    /\ UNCHANGED <<rs, pc, loc, calls, msgs, bridgeVars, otherVars>>

\* eval_run_service.py:110-144: from the first await to `await _execute_eval`
EvalSetup(o, oc) ==
    /\ epc[o] = "setup"
    /\ ecall' = [ecall EXCEPT ![o] = Yielded(oc)]
    /\ IF oc.kind = "raise"
       THEN /\ es' = EvalRaise(es, o, oc.exc)
            /\ epc' = [epc EXCEPT ![o] = "raised"]
       ELSE /\ LET s1 == IF oc.kind = "no_project"
                         THEN EvalAddInfoLog(es, o, "UIPATH_PROJECT_ID not set")
                         ELSE es
                   s2 == EvalAddInfoLog(s1, o, "Entrypoint")
               IN  es' = EvalAddInfoLog(s2, o, "Eval set")
            /\ epc' = [epc EXCEPT ![o] = "evaluate"]
    /\ UNCHANGED <<runVars, bridgeVars, otherVars>>

\* eval_run_service.py:144-191: `await self._execute_eval(...)` completes
EvalExecuteEval(o, oc) ==
    /\ epc[o] = "evaluate"
    /\ ecall' = [ecall EXCEPT ![o] = Yielded(oc)]
    /\ IF oc.kind = "raise"
       THEN /\ es' = EvalRaise(es, o, oc.exc)
            /\ epc' = [epc EXCEPT ![o] = "raised"]
       ELSE LET parsed == ParseEvalResults(es.run[o].evaluation_results, oc.output,
                                           es.run[o].output_file, oc.file)
                s1 == IF parsed.out = es.run[o].evaluation_results THEN es
                      ELSE EvalSetField(es, o, "evaluation_results", parsed.out)
                s2 == EvalSetField(s1, o, "status", "completed")
            IN  IF parsed.raised # None
                THEN /\ es' = EvalRaise(s1, o, parsed.raised)
                     /\ epc' = [epc EXCEPT ![o] = "raised"]
                ELSE IF OverallScoreRaises(s2.run[o].evaluation_results)
                THEN /\ es' = EvalRaise(s2, o, "TypeError")
                     /\ epc' = [epc EXCEPT ![o] = "raised"]
                ELSE /\ es' = EvalEmitRunUpdated(
                                  EvalAddInfoLog(s2, o, "Evaluation completed"), o)
                     /\ epc' = [epc EXCEPT ![o] = "returned"]
    /\ UNCHANGED <<runVars, bridgeVars, otherVars>>

EvalRegister(o) ==
    /\ es' = EvalRegisterRun(es, o)
    /\ UNCHANGED <<epc, ecall, runVars, bridgeVars, otherVars>>

EvalHandleTraceCall(m, budget) ==
    /\ msgs < budget
    /\ msgs' = msgs + 1
    /\ es' = [EvalHandleTrace(es, m) EXCEPT !.recv[m.run_id][m.span_id] = m]
    /\ UNCHANGED <<rs, pc, loc, calls, execs, epc, ecall, bridgeVars, otherVars>>


(***************************************************************************)
(* TextualDebugBridge                                                      *)
(* b = [connected, quit_requested, breakpoints, event]                     *)
(*   event = [value, waiters]: the asyncio.Event _resume_event, waiters[w] *)
(*   the future coroutine w awaits in Event.wait(): "none" when it has     *)
(*   none, "pending", or "done" once set() resolved it.                    *)
(***************************************************************************)
Cos == 1..NumCo

\* debug_bridge.py:17 __init__
InitBridgeState ==
    [connected |-> FALSE, quit_requested |-> FALSE, breakpoints |-> "*",
     event |-> [value |-> FALSE, waiters |-> [w \in Cos |-> "none"]]]

\* asyncio.Event.set as called at debug_bridge.py:44, 95, 100: sets the flag
\* and resolves the future of every waiter, unless the flag is set already.
EventSetOne(b) ==
    IF b.event.value THEN b
    ELSE [b EXCEPT !.event.value = TRUE,
                   !.event.waiters =
                       [w \in Cos |->
                           IF @[w] = "pending" /\ \A v \in Cos : @[v] = "pending" => w <= v
                           THEN "done" ELSE @[w]]]
EventSet(b) ==
    IF b.event.value THEN b
    ELSE [b EXCEPT !.event.value = TRUE,
                   !.event.waiters =
                       [w \in Cos |-> IF @[w] = "pending" THEN "done" ELSE @[w]]]

\* asyncio.Event.clear as called at debug_bridge.py:87
EventKeep(b) == b
EventClear(b) == [b EXCEPT !.event.value = FALSE]

\* debug_bridge.py:35 connect
BridgeConnect(b) == [b EXCEPT !.connected = TRUE, !.quit_requested = FALSE]

\* debug_bridge.py:41 disconnect
BridgeDisconnectOnly(b) == [b EXCEPT !.connected = FALSE]
\* A disconnect that would drop the quit request as connect() does.
BridgeDisconnectReset(b) ==
    EventSet([b EXCEPT !.connected = FALSE, !.quit_requested = FALSE])
BridgeDisconnect(b) == EventSet([b EXCEPT !.connected = FALSE])

\* debug_bridge.py:93 resume
BridgeResume(b) == EventSet(b)

\* debug_bridge.py:97 quit
BridgeQuitFlagOnly(b) == [b EXCEPT !.quit_requested = TRUE]
BridgeQuit(b) == EventSet([b EXCEPT !.quit_requested = TRUE])

\* debug_bridge.py:106 set_breakpoints
BridgeSetBreakpoints(b, bps) == [b EXCEPT !.breakpoints = bps]

\* debug_bridge.py:90-91: how wait_for_resume() ends once its wait is over
WaitResult(b) == IF b.quit_requested THEN "quit" ELSE "returned"

\* Coroutine w is suspended in `await self._resume_event.wait()`.
Blocked(b, w) == b.event.waiters[w] = "pending"
BlockedSet(b) == {w \in Cos : Blocked(b, w)}

\* History kept with a bridge operation: its name, the coroutines it
\* released, and whether a resume() made with no coroutine waiting has had
\* no wait_for_resume() after it yet (unseen); for a wait_for_resume(),
\* whether it was the first call after such a resume() (early); and whether
\* quit() has been called with no connect() after it (quit).
Op(name, b, b2, unseen) ==
    [op |-> name, freed |-> BlockedSet(b) \ BlockedSet(b2), unseen |-> unseen,
     early |-> name = "wait_for_resume" /\ lastOp.unseen,
     quit |-> IF name = "quit" THEN TRUE
              ELSE IF name = "connect" THEN FALSE
              ELSE lastOp.quit]

\* The coroutines an operation released are marked with its name.
Mark(name, b, b2) ==
    [w \in Cos |-> IF w \in BlockedSet(b) \ BlockedSet(b2)
                   THEN [co[w] EXCEPT !.by = name] ELSE co[w]]

\* A coroutine released by quit() that has not run yet when connect() clears
\* the request is marked as such.
Connect ==
    /\ br' = BridgeConnect(br)
    /\ lastOp' = Op("connect", br, br', lastOp.unseen)
    /\ co' = [w \in Cos |->
                IF co[w].pc = "waiting" /\ co[w].by = "quit"
                THEN [co[w] EXCEPT !.by = "quit, connect"] ELSE co[w]]
    /\ UNCHANGED <<runVars, evalVars, otherVars>>

Disconnect ==
    /\ br' = BridgeDisconnect(br)
    /\ lastOp' = Op("disconnect", br, br', lastOp.unseen)
    /\ co' = Mark("disconnect", br, br')
    /\ UNCHANGED <<runVars, evalVars, otherVars>>

Resume ==
    /\ br' = BridgeResume(br)
    /\ lastOp' = Op("resume", br, br', lastOp.unseen \/ \A w \in Cos : co[w].pc # "waiting")
    /\ co' = Mark("resume", br, br')
    /\ UNCHANGED <<runVars, evalVars, otherVars>>

Quit ==
    /\ br' = BridgeQuit(br)
    /\ lastOp' = Op("quit", br, br', lastOp.unseen)
    /\ co' = Mark("quit", br, br')
    /\ UNCHANGED <<runVars, evalVars, otherVars>>

SetBreakpoints(bps) ==
    /\ br' = BridgeSetBreakpoints(br, bps)
    /\ lastOp' = Op("set_breakpoints", br, br', lastOp.unseen)
    /\ UNCHANGED <<co, runVars, evalVars, otherVars>>

\* debug_bridge.py:87-88: wait_for_resume() up to the await: clear(), then
\* Event.wait() returns at once if the flag is set and suspends otherwise.
WaitForResume(w) ==
    /\ co[w].pc # "waiting"
    /\ LET b1 == EventClear(br)
       IN  IF b1.event.value
           THEN /\ br' = b1
                /\ co' = [co EXCEPT ![w] = [pc |-> WaitResult(b1), by |-> None]]
           ELSE /\ br' = [b1 EXCEPT !.event.waiters[w] = "pending"]
                /\ co' = [co EXCEPT ![w] = [pc |-> "waiting", by |-> None]]
    /\ lastOp' = Op("wait_for_resume", br, br', FALSE)
    /\ UNCHANGED <<runVars, evalVars, otherVars>>

\* debug_bridge.py:88-91: the event loop runs w again after its future was
\* resolved; Event.wait() drops the future and wait_for_resume() ends.
WakeUp(w) ==
    /\ co[w].pc = "waiting"
    /\ br.event.waiters[w] = "done"
    /\ br' = [br EXCEPT !.event.waiters[w] = "none"]
    /\ co' = [co EXCEPT ![w].pc = WaitResult(br)]
    /\ lastOp' = Op("wake_up", br, br', lastOp.unseen)
    /\ UNCHANGED <<runVars, evalVars, otherVars>>

(***************************************************************************)
(* EvalRun (models/eval_run.py): its properties and its serialization      *)
(***************************************************************************)
\* A datetime, in seconds and microseconds, and Python's None in its place.
DateTime(sec, micro) == [none |-> FALSE, sec |-> sec, micro |-> micro]
NoTime == [none |-> TRUE, sec |-> 0, micro |-> 0]

\* datetime.isoformat() writes the microseconds only when they are not zero;
\* datetime.fromisoformat() reads a text without them as zero microseconds.
\* JsonNull stands in a dictionary where a text or null is stored.
IsoFormatSeconds(dt) == [null |-> FALSE, sec |-> dt.sec, frac |-> <<>>]
IsoFormat(dt) ==
    [null |-> FALSE, sec |-> dt.sec, frac |-> IF dt.micro = 0 THEN <<>> ELSE <<dt.micro>>]
JsonNull == [null |-> TRUE, sec |-> 0, frac |-> <<>>]
FromIsoFormat(text) ==
    DateTime(text.sec, IF text.frac = <<>> THEN 0 ELSE text.frac[1])

\* UiPathErrorContract.to_dict() / from_dict() of uipath.runtime.errors: the
\* members of the contract as a dictionary, and back.
ErrorDict(form, e) ==
    [form |-> form, code |-> e.code, title |-> e.title, detail |-> e.detail]
ErrorToDict(e) == ErrorDict("dict", e)
ErrorFromDict(d) == [code |-> d.code, title |-> d.title, detail |-> d.detail]

\* A path: its directories, and its file name as the parts between the dots.
\* Path(p).stem is the file name without its last suffix.
PathOf(dirs, name) == [dirs |-> dirs, name |-> name]
Stem(path) ==
    IF Len(path.name) > 1 THEN SubSeq(path.name, 1, Len(path.name) - 1)
    ELSE path.name

\* eval_run.py:16-25 EvaluatorResult, all its members
EvaluatorResultOf(id, name, score, details, evaluation_time, justification) ==
    [evaluator_id |-> id, evaluator_name |-> name, score |-> score,
     details |-> details, evaluation_time |-> evaluation_time,
     justification |-> justification]

\* eval_run.py:45-86 EvalRun.__init__: an empty name becomes "Run: <id>",
\* no start_time becomes datetime.now(), the results, logs and traces start
\* empty.  A name is a sequence of texts.
DefaultName(id) == <<"Run: ", id>>
Now == DateTime(9, 0)
EvalRunOf(id, name, status, start_time, end_time, evaluator_refs, error, options) ==
    [id |-> id,
     name |-> IF name # <<>> THEN name ELSE DefaultName(id),
     eval_set_path |-> PathOf(<<"evals">>, <<"a", "json">>), entrypoint |-> "main",
     status |-> status,
     start_time |-> IF start_time.none THEN Now ELSE start_time,
     end_time |-> end_time,
     evaluator_refs |-> evaluator_refs, evaluation_results |-> <<>>,
     error |-> error, logs |-> <<>>, traces |-> <<>>,
     options |-> options]

\* The execution options: no_report, workers, eval_set_run_id,
\* enable_mocker_cache, eval_ids, report_coverage, output_file.
Options(workers, eval_ids, output_file) ==
    [no_report |-> FALSE, workers |-> workers, eval_set_run_id |-> None,
     enable_mocker_cache |-> FALSE, eval_ids |-> eval_ids,
     report_coverage |-> FALSE, output_file |-> output_file]

\* eval_run.py:156-159: the scores of all evaluator results, in order
RECURSIVE ScoresOf(_)
ScoresOf(evaluator_results) ==
    IF evaluator_results = <<>> THEN <<>>
    ELSE <<Head(evaluator_results).score>> \o ScoresOf(Tail(evaluator_results))
RECURSIVE AllScores(_)
AllScores(evaluation_results) ==
    IF evaluation_results = <<>> THEN <<>>
    ELSE ScoresOf(Head(evaluation_results).evaluator_results)
             \o AllScores(Tail(evaluation_results))

\* sum() of a list of numbers
RECURSIVE Sum(_)
Sum(scores) == IF scores = <<>> THEN 0 ELSE Head(scores).n + Sum(Tail(scores))

\* A float as the quotient of two integers; the numerator is in hundredths
\* like the scores.
Ratio(num, den) == [num |-> num, den |-> den]
Returned(op, value) == [op |-> op, raised |-> None, value |-> value]
Raised(op, exc) == [op |-> op, raised |-> exc, value |-> None]
NoCall == Returned("none", None)

\* The mean of the means of the evaluations, leaving out the evaluations
\* without evaluator results.
RECURSIVE MeanOfMeans(_)
MeanOfMeans(evaluation_results) ==
    IF evaluation_results = <<>> THEN Ratio(0, 0)
    ELSE LET scores == ScoresOf(Head(evaluation_results).evaluator_results)
             rest == MeanOfMeans(Tail(evaluation_results))
         IN  IF scores = <<>> THEN rest
             ELSE IF rest.den = 0 THEN Ratio(Sum(scores), Len(scores))
             ELSE Ratio(Sum(scores) * rest.den + rest.num * Len(scores),
                        Len(scores) * rest.den)
RECURSIVE Counted(_)
Counted(evaluation_results) ==
    IF evaluation_results = <<>> THEN 0
    ELSE (IF Head(evaluation_results).evaluator_results = <<>> THEN 0 ELSE 1)
             + Counted(Tail(evaluation_results))
OverallScoreOfMeans(evaluation_results) ==
    IF OverallScoreRaises(evaluation_results) THEN Raised("overall_score", "TypeError")
    ELSE IF AllScores(evaluation_results) = <<>>
    THEN Returned("overall_score", Ratio(0, 1))
    ELSE LET m == MeanOfMeans(evaluation_results)
         IN  Returned("overall_score",
                      Ratio(m.num, m.den * Counted(evaluation_results)))

\* eval_run.py:153-160 overall_score
OverallScore(evaluation_results) ==
    LET all_scores == AllScores(evaluation_results)
    IN  IF OverallScoreRaises(evaluation_results)
        THEN Raised("overall_score", "TypeError")
        ELSE IF all_scores = <<>>
        THEN Returned("overall_score", Ratio(0, 1))
        ELSE Returned("overall_score", Ratio(Sum(all_scores), Len(all_scores)))

\* The property is read.
OverallScoreCall ==
    /\ ret' = OverallScore(evalrun.evaluation_results)
    /\ UNCHANGED <<runVars, evalVars, bridgeVars, cb, evalrun, chat, files>>

\* `r.score == 1.0`: None equals no number.
ScoreIsOne(score) == ~score.none /\ score.n = 100

\* eval_run.py:36-39 EvaluationResult.passed: all() over the evaluator
\* results, which stops at the first that is not 1.0.
PassedAny(evaluation_result) ==
    \E j \in 1..Len(evaluation_result.evaluator_results) :
        ScoreIsOne(evaluation_result.evaluator_results[j].score)
RECURSIVE AllOf(_)
AllOf(scores) ==
    IF scores = <<>> THEN TRUE
    ELSE IF ~ScoreIsOne(Head(scores)) THEN FALSE
    ELSE AllOf(Tail(scores))
Passed(evaluation_result) == AllOf(ScoresOf(evaluation_result.evaluator_results))

\* The property is read on the i-th evaluation result of the run.
PassedCall(i) ==
    /\ i \in 1..Len(evalrun.evaluation_results)
    /\ ret' = Returned("passed",
                  [index |-> i, passed |-> Passed(evalrun.evaluation_results[i])])
    /\ UNCHANGED <<runVars, evalVars, bridgeVars, cb, evalrun, chat, files>>

\* eval_run.py:173-190: the dictionaries of the evaluation results
EvaluatorResultsToDict(evaluator_results) ==
    [j \in 1..Len(evaluator_results) |->
        [evaluator_id |-> evaluator_results[j].evaluator_id,
         evaluator_name |-> evaluator_results[j].evaluator_name,
         score |-> evaluator_results[j].score,
         details |-> evaluator_results[j].details,
         evaluation_time |-> evaluator_results[j].evaluation_time,
         justification |-> evaluator_results[j].justification]]
EvaluationResultsToDict(evaluation_results) ==
    [i \in 1..Len(evaluation_results) |->
        [eval_id |-> evaluation_results[i].eval_id,
         eval_name |-> evaluation_results[i].eval_name,
         evaluator_results |->
            EvaluatorResultsToDict(evaluation_results[i].evaluator_results)]]

\* eval_run.py:162-200 to_dict: every member but logs and traces; the times
\* as ISO texts, no end_time and no error as null.
ToDict(r) ==
    [id |-> r.id, name |-> r.name,
     eval_set_path |-> r.eval_set_path, entrypoint |-> r.entrypoint,
     status |-> r.status,
     start_time |-> IsoFormat(r.start_time),
     end_time |-> IF r.end_time.none THEN JsonNull ELSE IsoFormat(r.end_time),
     evaluator_refs |-> r.evaluator_refs,
     evaluation_results |-> EvaluationResultsToDict(r.evaluation_results),
     error |-> IF r.error = NoError THEN ErrorDict("null", NoError)
               ELSE ErrorToDict(r.error),
     no_report |-> r.options.no_report, workers |-> r.options.workers,
     eval_set_run_id |-> r.options.eval_set_run_id,
     enable_mocker_cache |-> r.options.enable_mocker_cache,
     eval_ids |-> r.options.eval_ids,
     report_coverage |-> r.options.report_coverage,
     output_file |-> r.options.output_file]

\* eval_run.py:229-245: the evaluation results of a dictionary
EvaluationResultsFromDict(data) ==
    [i \in 1..Len(data) |->
        [eval_id |-> data[i].eval_id,
         eval_name |-> data[i].eval_name,
         evaluator_results |->
            [j \in 1..Len(data[i].evaluator_results) |->
                EvaluatorResultOf(data[i].evaluator_results[j].evaluator_id,
                                  data[i].evaluator_results[j].evaluator_name,
                                  data[i].evaluator_results[j].score,
                                  data[i].evaluator_results[j].details,
                                  data[i].evaluator_results[j].evaluation_time,
                                  data[i].evaluator_results[j].justification)]]]

\* eval_run.py:202-247 from_dict, of a dictionary that has every key: the
\* constructor is called with the members, the times read back when their
\* text is there, the error when its dictionary is there; then the results
\* are appended.
FromDict(data) ==
    LET error == IF data.error.form = "null" THEN NoError
                 ELSE ErrorFromDict(data.error)
        start_time == IF data.start_time.null THEN NoTime
                      ELSE FromIsoFormat(data.start_time)
        end_time == IF data.end_time.null THEN NoTime
                    ELSE FromIsoFormat(data.end_time)
        eval_run == EvalRunOf(data.id, data.name, data.status, start_time, end_time,
                              data.evaluator_refs, error,
                              [no_report |-> data.no_report, workers |-> data.workers,
                               eval_set_run_id |-> data.eval_set_run_id,
                               enable_mocker_cache |-> data.enable_mocker_cache,
                               eval_ids |-> data.eval_ids,
                               report_coverage |-> data.report_coverage,
                               output_file |-> data.output_file])
    IN  [eval_run EXCEPT
            !.eval_set_path = data.eval_set_path,
            !.entrypoint = data.entrypoint,
            !.evaluation_results = EvaluationResultsFromDict(data.evaluation_results)]

\* r.to_dict() is called, and EvalRun.from_dict() on the dictionary it gave.
ToDictCall ==
    /\ ret' = Returned("to_dict", ToDict(evalrun))
    /\ UNCHANGED <<runVars, evalVars, bridgeVars, cb, evalrun, chat, files>>

FromDictCall ==
    /\ ret.op = "to_dict"
    /\ ret' = Returned("from_dict", FromDict(ret.value))
    /\ UNCHANGED <<runVars, evalVars, bridgeVars, cb, evalrun, chat, files>>

(***************************************************************************)
(* EvalRunService.get_runs_for_eval_set                                    *)
(***************************************************************************)
\* The run objects in the table.
Registered(st) == {st.runs[i] : i \in DOMAIN st.runs} \ {NoRun}

\* self.runs.values(): the registered runs in the order their ids entered the
\* table, which is any order.
Orderings(S) ==
    {q \in [1..Cardinality(S) -> S] :
        \A i, j \in 1..Cardinality(S) : i # j => q[i] # q[j]}

Later(a, b) == a.sec > b.sec \/ (a.sec = b.sec /\ a.micro > b.micro)

\* eval_run_service.py:94 list.sort(key=start_time, reverse=True): the later
\* start_time first, runs of equal start_time in the order they had.
RECURSIVE InsertByStartTime(_, _, _)
InsertByStartTime(st, sorted, o) ==
    IF sorted = <<>> THEN <<o>>
    ELSE IF Later(st.run[o].start_time, st.run[Head(sorted)].start_time)
    THEN <<o>> \o sorted
    ELSE <<Head(sorted)>> \o InsertByStartTime(st, Tail(sorted), o)
RECURSIVE SortNewestFirst(_, _)
SortNewestFirst(st, runs) ==
    IF runs = <<>> THEN <<>>
    ELSE InsertByStartTime(st, SortNewestFirst(st, SubSeq(runs, 1, Len(runs) - 1)),
                           runs[Len(runs)])

\* eval_run_service.py:89-93: the runs whose eval_set_path has the stem
MatchingRuns(st, eval_set_name, values) ==
    LET Matches(o) == Stem(st.run[o].eval_set_path) = eval_set_name
    IN  SelectSeq(values, Matches)

\* eval_run_service.py:80-96 get_runs_for_eval_set
GetRunsUnsorted(st, eval_set_name, values) ==
    MatchingRuns(st, eval_set_name, values)
GetRunsForEvalSet(st, eval_set_name, values) ==
    SortNewestFirst(st, MatchingRuns(st, eval_set_name, values))

GetRunsForEvalSetCall(eval_set_name) ==
    /\ \E values \in Orderings(Registered(es)) :
          ret' = Returned("get_runs_for_eval_set",
                          [eval_set_name |-> eval_set_name,
                           runs |-> GetRunsForEvalSet(es, eval_set_name, values)])
    /\ UNCHANGED <<runVars, evalVars, bridgeVars, cb, evalrun, chat, files>>

\* eval_run_service.py:71 register_run, which returns None
EvalRegisterCall(o) ==
    /\ es' = EvalRegisterRun(es, o)
    /\ ret' = Returned("register_run", None)
    /\ UNCHANGED <<epc, ecall, runVars, bridgeVars, cb, evalrun, chat, files>>

(***************************************************************************)
(* TextualDebugBridge: the notifications to the controller                 *)
(***************************************************************************)
\* debug_bridge.py:47-79: the five emit_* methods, by the callback each calls
Notifications ==
    {"execution_started", "state_update", "breakpoint_hit",
     "execution_completed", "execution_error"}

\* debug_bridge.py:24-33: every on_* callback is None after construction.
\* emitted and delivered are the history: the emit_* calls made, and the
\* callback calls that the controller received.
InitCallbacks ==
    [on |-> [k \in Notifications |-> FALSE], emitted |-> <<>>, delivered |-> <<>>]

\* The controller assigns a callback attribute, a function or None.
SetCallback(k, attached) ==
    /\ cb' = [cb EXCEPT !.on[k] = attached]
    /\ UNCHANGED <<runVars, evalVars, bridgeVars, evalrun, ret, chat, files>>

\* debug_bridge.py:47-79 emit_<k>: the message is logged, and the callback
\* is called if there is one; the method has no await in it.
Emit(k, budget) ==
    /\ Len(cb.emitted) < budget
    /\ cb' = [cb EXCEPT !.emitted = Append(@, k),
                        !.delivered = IF cb.on[k] THEN Append(@, k) ELSE @]
    /\ UNCHANGED <<runVars, evalVars, bridgeVars, evalrun, ret, chat, files>>

(***************************************************************************)
(* ChatEvents (models/chat.py)                                             *)
(***************************************************************************)
MessageIds == {"m1", "m2"}
PartIds == {"p1", "p2"}
ToolCallIds == {"t1"}

\* The content_part member of a message event: start is the mime type of
\* its start event, chunk the data of its chunk event ("none" for a chunk
\* without data), end how its end event ended it; None and "absent" where
\* there is no such event.
ContentPartEvent(id, start, chunk, end) ==
    [present |-> TRUE, content_part_id |-> id, start |-> start, chunk |-> chunk,
     end |-> end]
NoContentPart ==
    [present |-> FALSE, content_part_id |-> None, start |-> None, chunk |-> "absent",
     end |-> "absent"]
\* The tool_call member: start is the tool name of its start event, end the
\* result of its end event.
ToolCallEvent(id, start, end) ==
    [present |-> TRUE, tool_call_id |-> id, start |-> start, end |-> end]
NoToolCall == [present |-> FALSE, tool_call_id |-> None, start |-> None, end |-> None]

\* A conversation event: whether it has exchange.message, and then the
\* message id, the role of the message start event (None without one), the
\* content part and the tool call.
ChatEvent(message_id, role, content_part, tool_call) ==
    [message |-> TRUE, message_id |-> message_id, role |-> role,
     content_part |-> content_part, tool_call |-> tool_call]
NoExchange ==
    [message |-> FALSE, message_id |-> None, role |-> None,
     content_part |-> NoContentPart, tool_call |-> NoToolCall]

\* A text is the sequence of the pieces it was put together from.
ChunkData(chunk) == IF chunk \in {"absent", "none"} THEN <<>> ELSE <<chunk>>
ConcatFront(inline, data) == data \o inline
Concat(inline, data) == inline \o data

\* chat.py:42-49 the message built for a new message_id; absent from the
\* dictionary before.
NoChatMessage ==
    [exists |-> FALSE, role |-> None, content_parts |-> <<>>, tool_calls |-> <<>>,
     created_at |-> None, updated_at |-> None]
\* chat.py:159-169 get_timestamp and get_role
GetTimestamp(ev) == IF ev.role # None THEN "start.timestamp" ELSE "now"
GetRole(ev) == IF ev.role # None THEN ev.role ELSE "assistant"
NewMessage(ev) ==
    [exists |-> TRUE, role |-> GetRole(ev), content_parts |-> <<>>, tool_calls |-> <<>>,
     created_at |-> GetTimestamp(ev), updated_at |-> GetTimestamp(ev)]

\* chat.py:56-63 and 105-112: next(... for ... if id matches, None), as the
\* index of the first match, 0 for None
IndexOfPart(parts, id) ==
    IF \E i \in 1..Len(parts) : parts[i].content_part_id = id
    THEN CHOOSE i \in 1..Len(parts) :
            /\ parts[i].content_part_id = id
            /\ \A j \in 1..(i - 1) : parts[j].content_part_id # id
    ELSE 0
IndexOfToolCall(tool_calls, id) ==
    IF \E i \in 1..Len(tool_calls) : tool_calls[i].tool_call_id = id
    THEN CHOOSE i \in 1..Len(tool_calls) :
            /\ tool_calls[i].tool_call_id = id
            /\ \A j \in 1..(i - 1) : tool_calls[j].tool_call_id # id
    ELSE 0

\* chat.py:67-74 and 83-90: a new, empty content part
ContentPart(id, mime_type) ==
    [content_part_id |-> id, mime_type |-> mime_type, inline |-> <<>>,
     is_incomplete |-> TRUE]

\* chat.py:53-100: the content part of the event
AddContentPart(msg, cp) ==
    LET id == cp.content_part_id
        parts0 == msg.content_parts
        parts1 == IF cp.start # None /\ IndexOfPart(parts0, id) = 0
                  THEN Append(parts0, ContentPart(id, cp.start)) ELSE parts0
        parts2 == IF cp.chunk # "absent" /\ IndexOfPart(parts1, id) = 0
                  THEN Append(parts1, ContentPart(id, "text/plain")) ELSE parts1
        existing == IndexOfPart(parts2, id)
        parts3 == IF cp.chunk # "absent"
                  THEN [parts2 EXCEPT ![existing].inline = Concat(@, ChunkData(cp.chunk))]
                  ELSE parts2
        parts4 == IF cp.end # "absent" /\ existing # 0
                  THEN [parts3 EXCEPT ![existing].is_incomplete = (cp.end = "interrupted")]
                  ELSE parts3
    IN  [msg EXCEPT !.content_parts = parts4]

\* chat.py:103-153: the tool call of the event
AddToolCall(msg, tc) ==
    LET id == tc.tool_call_id
        calls0 == msg.tool_calls
        found == IndexOfToolCall(calls0, id)
        calls1 == IF tc.start = None THEN calls0
                  ELSE IF found = 0
                  THEN Append(calls0, [tool_call_id |-> id, name |-> tc.start,
                                       result |-> None])
                  ELSE [calls0 EXCEPT ![found].name = tc.start]
        calls2 == IF tc.end # None /\ IndexOfToolCall(calls1, id) = 0
                  THEN Append(calls1, [tool_call_id |-> id, name |-> "", result |-> None])
                  ELSE calls1
        existing == IndexOfToolCall(calls2, id)
        calls3 == IF tc.end # None
                  THEN [calls2 EXCEPT ![existing].result = tc.end] ELSE calls2
    IN  [msg EXCEPT !.tool_calls = calls3]

\* chat.py:33-157 add. made counts the messages built per message_id and
\* events keeps the events added, both history.
ChatAdd(c, ev) ==
    IF ~ev.message THEN [c EXCEPT !.events = Append(@, ev)]
    ELSE LET id == ev.message_id
             known == c.messages[id].exists
             msg0 == IF known THEN c.messages[id] ELSE NewMessage(ev)
             msg1 == IF ev.content_part.present
                     THEN AddContentPart(msg0, ev.content_part) ELSE msg0
             msg2 == IF ev.tool_call.present
                     THEN AddToolCall(msg1, ev.tool_call) ELSE msg1
         IN  [c EXCEPT !.messages[id] = [msg2 EXCEPT !.updated_at = GetTimestamp(ev)],
                       !.made[id] = IF known THEN @ ELSE @ + 1,
                       !.events = Append(@, ev)]

InitChat ==
    [messages |-> [m \in MessageIds |-> NoChatMessage],
     made |-> [m \in MessageIds |-> 0],
     events |-> <<>>]

Add(ev, budget) ==
    /\ Len(chat.events) < budget
    /\ chat' = ChatAdd(chat, ev)
    /\ UNCHANGED <<runVars, evalVars, bridgeVars, cb, evalrun, ret, files>>

(***************************************************************************)
(* EvalSetService (services/eval_set_service.py) and the console's         *)
(* create-eval-set action                                                  *)
(***************************************************************************)
EvalSetIds == {"s1", "s2"}

\* The JSON stored in <eval_set_id>.json; None for a key that is not written.
EvalSetData(version, id, name, evaluatorRefs, evaluations) ==
    [stored |-> TRUE, version |-> version, id |-> id, name |-> name,
     evaluatorRefs |-> evaluatorRefs, evaluations |-> evaluations]
NoFile ==
    [stored |-> FALSE, version |-> None, id |-> None, name |-> None,
     evaluatorRefs |-> <<>>, evaluations |-> <<>>]

\* eval_set_service.py:12-24: the eval-sets directory, which need not exist
InitFiles == [exists |-> FALSE, file |-> [i \in EvalSetIds |-> NoFile]]

\* eval_set_service.py:26 ensure_directory
EnsureDirectory(fs) == [fs EXCEPT !.exists = TRUE]

\* eval_set_service.py:90-132 create_eval_set: the directory after it, and
\* the exception it raised
CreateEvalSet(fs, eval_set_id, name, evaluator_refs, evaluations) ==
    LET f1 == EnsureDirectory(fs)
    IN  IF f1.file[eval_set_id].stored
        THEN [files |-> f1, raised |-> "ValueError"]
        ELSE [files |-> [f1 EXCEPT !.file[eval_set_id] =
                            EvalSetData("1.0", eval_set_id, name, evaluator_refs,
                                        evaluations)],
              raised |-> None]

\* eval_set_service.py:134-148 save_eval_set
SaveEvalSet(fs, eval_set_id, data) ==
    [EnsureDirectory(fs) EXCEPT !.file[eval_set_id] = data]

\* __init__.py:962-994 _on_eval_set_create: the directory after it, and the
\* severity of the notification it showed
OnEvalSetCreate(fs, form_data) ==
    IF form_data.eval_set_id = ""
    THEN [files |-> fs, notified |-> "error"]
    ELSE [files |-> SaveEvalSet(fs, form_data.eval_set_id,
                                EvalSetData(None, None, form_data.name,
                                            form_data.evaluator_refs,
                                            form_data.evaluations)),
          notified |-> "information"]

\* What a create call was made with and met: the id, whether a definition
\* was stored under it and which, and whether the call ended in an error.
Created(op, eval_set_id, fs, error) ==
    [op |-> op, raised |-> IF error /\ op = "create_eval_set" THEN "ValueError" ELSE None,
     value |-> [eval_set_id |-> eval_set_id,
                existed |-> eval_set_id # "" /\ fs.file[IF eval_set_id = "" THEN "s1"
                                                        ELSE eval_set_id].stored,
                before |-> fs.file[IF eval_set_id = "" THEN "s1" ELSE eval_set_id],
                error |-> error]]

CreateEvalSetCall(eval_set_id, name, evaluations) ==
    LET r == CreateEvalSet(files, eval_set_id, name, <<"ev1">>, evaluations)
    IN  /\ files' = r.files
        /\ ret' = Created("create_eval_set", eval_set_id, files, r.raised # None)
        /\ UNCHANGED <<runVars, evalVars, bridgeVars, cb, evalrun, chat>>

OnEvalSetCreateCall(form_data) ==
    LET r == OnEvalSetCreate(files, form_data)
    IN  /\ files' = r.files
        /\ ret' = Created("_on_eval_set_create", form_data.eval_set_id, files,
                          r.notified = "error")
        /\ UNCHANGED <<runVars, evalVars, bridgeVars, cb, evalrun, chat>>


NoLocals == [input |-> None, resume |-> FALSE]

InitRunService ==
    /\ rs = InitService
    /\ pc = [o \in Runs |-> "idle"]
    /\ loc = [o \in Runs |-> NoLocals]
    /\ calls = [o \in Runs |-> <<>>]
    /\ execs = 0
    /\ msgs = 0

InitEval ==
    /\ es = InitEvalService
    /\ epc = [o \in Runs |-> "idle"]
    /\ ecall = [o \in Runs |-> NoEvalCall]

InitBridge ==
    /\ br = InitBridgeState
    /\ co = [w \in Cos |-> [pc |-> "idle", by |-> None]]
    /\ lastOp = [op |-> None, freed |-> {}, unseen |-> FALSE, early |-> FALSE,
                quit |-> FALSE]

\* An EvalRun as the console builds it (eval_sets_tab.py:335), no callbacks
\* on the bridge, no chat events, an empty eval-sets directory.
InitOther ==
    /\ cb = InitCallbacks
    /\ evalrun = EvalRunOf("r1", <<>>, "pending", NoTime, NoTime, <<>>, NoError,
                           Options(1, <<>>, None))
    /\ ret = NoCall
    /\ chat = InitChat
    /\ files = InitFiles

Init == InitRunService /\ InitEval /\ InitBridge /\ InitOther

(***************************************************************************)
(* SpecExec: runs driven through execute(), every runtime outcome            *)
(***************************************************************************)
NextExec ==
    \/ \E o \in Runs : Register(o)
    \/ \E o \in Runs : ExecBegin(o, MaxExec)
    \/ \E o \in Runs : \E oc \in FactoryOutcomes : NewRuntime(o, oc)
    \/ \E o \in Runs : \E oc \in ExecuteOutcomes : RuntimeExecute(o, oc)

SpecExec == Init /\ [][NextExec]_vars

(***************************************************************************)
(* handle_log / handle_trace called from outside execute(): the log        *)
(* handler and the span exporter of a running runtime, the stderr capture  *)
(***************************************************************************)
HandleLogCall(i) ==
    /\ msgs < MaxMsgs
    /\ msgs' = msgs + 1
    /\ rs' = HandleLog(rs, LogMessage(i, "INFO", "runtime log"))
    /\ UNCHANGED <<pc, loc, calls, execs, evalVars, bridgeVars, otherVars>>

\* handle_log called from outside with message m
HandleLogMsg(m, budget) ==
    /\ msgs < budget
    /\ msgs' = msgs + 1
    /\ rs' = HandleLog(rs, m)
    /\ UNCHANGED <<pc, loc, calls, execs, evalVars, bridgeVars, otherVars>>

EvalHandleLogCall(m, budget) ==
    /\ msgs < budget
    /\ msgs' = msgs + 1
    /\ es' = EvalHandleLog(es, m)
    /\ UNCHANGED <<rs, pc, loc, calls, execs, epc, ecall, bridgeVars, otherVars>>

HandleTraceCall(m, budget) ==
    /\ msgs < budget
    /\ msgs' = msgs + 1
    /\ rs' = [HandleTrace(rs, m) EXCEPT !.recv[m.run_id][m.span_id] = m]
    /\ UNCHANGED <<pc, loc, calls, execs, evalVars, bridgeVars, otherVars>>

(***************************************************************************)
(* SpecRoute: two runs in flight with logs and traces arriving in between  *)
(***************************************************************************)
\* One outcome for each exit of execute() that writes logs.
RouteOutcomes ==
    {[kind |-> "result",
      result |-> [status |-> "successful", resume |-> FALSE, output |-> "X"]],
     [kind |-> "raise", exc |-> "Exception"]}
RouteTraces == {TraceMessage(i, "s1", "started") : i \in RunIds}

NextRoute ==
    \/ \E o \in Runs : Register(o)
    \/ \E o \in Runs : ExecBegin(o, MaxRouteExec)
    \/ \E o \in Runs : NewRuntime(o, [kind |-> "runtime"])
    \/ \E o \in Runs : \E oc \in RouteOutcomes : RuntimeExecute(o, oc)
    \/ \E i \in RunIds : HandleLogCall(i)
    \/ \E m \in RouteTraces : HandleTraceCall(m, MaxMsgs)

SpecRoute == Init /\ [][NextRoute]_vars

(***************************************************************************)
(* Claims about RunService                                                 *)
(***************************************************************************)
Terminal == {"completed", "failed"}
Finished(o) == pc[o] \in {"returned", "raised"} /\ calls[o] # <<>>
LastCall(o) == calls[o][Len(calls[o])]

\* C1: execute() never lets an exception out: whatever new_runtime or the
\* runtime's execute raises, execute() returns normally with status "failed"
\* and run.error set with a code.
C1_ExecuteNeverRaises ==
    \A o \in Runs :
        (Finished(o) /\ LastCall(o).outcome.kind = "raise") =>
            /\ pc[o] = "returned"
            /\ rs.run[o].status = "failed"
            /\ rs.run[o].error # NoError
            /\ rs.run[o].error.code # None

\* C2: no invocation of execute() finishes without an on_run_updated(run)
\* made after the last write to status, output_data, error and end_time.
C2_FinalNotification ==
    \A o \in Runs : Finished(o) => ~rs.stale[o]

\* C3: a pending run whose runtime answers SUSPENDED with resume set, and on
\* the second call SUCCESSFUL with output X, goes pending -> running ->
\* suspended -> running -> completed over two execute() calls, the second
\* runtime call is made with resume = true, and output_data is X at the end.
SuspendedThenSuccessful(o) ==
    /\ Len(calls[o]) = 2
    /\ pc[o] = "returned"
    /\ \A k \in 1..2 : calls[o][k].call = "execute" /\ calls[o][k].outcome.kind = "result"
    /\ calls[o][1].outcome.result.status = "suspended"
    /\ calls[o][1].outcome.result.resume
    /\ calls[o][2].outcome.result.status = "successful"
    /\ calls[o][2].outcome.result.output = "X"

C3_SuspendResumeRoundTrip ==
    \A o \in Runs :
        SuspendedThenSuccessful(o) =>
            /\ rs.hist[o] = <<"pending", "running", "suspended", "running", "completed">>
            /\ ~calls[o][1].resume
            /\ calls[o][2].resume
            /\ rs.run[o].output_data = calls[o][2].outcome.result.output

C2_Witness ==
    \E o, p \in Runs :
        /\ Finished(o) /\ rs.run[o].status = "failed"
        /\ Finished(p) /\ rs.run[p].status \in {"completed", "suspended"}

C3_Witness == \E o \in Runs : SuspendedThenSuccessful(o)

\* C4 as claimed: a completed or failed run never becomes pending, running or
\* suspended again, whatever RunService operation is called on it.
C4_TerminalForever ==
    [][\A o \in Runs :
        rs.run[o].status \in Terminal => rs'.run[o].status \in Terminal]_vars

\* C4 as amended: register_run, handle_log and handle_trace leave the status
\* of a completed or failed run as it is; such a run leaves its status only
\* by a new execute() on it, which sets it to running.
C4_TerminalUntilExecute ==
    [][\A o \in Runs :
        (rs.run[o].status \in Terminal /\ rs'.run[o].status # rs.run[o].status) =>
            /\ rs'.run[o].status = "running"
            /\ Idle(o)
            /\ pc'[o] = "new_runtime"]_vars

C4_Witness ==
    \E o \in Runs :
        /\ Len(rs.hist[o]) >= 4
        /\ rs.hist[o][3] \in Terminal
        /\ rs.hist[o][4] = "running"
        /\ rs.run[o].status \in Terminal
        /\ \E k \in 1..Len(rs.run[o].logs) : rs.run[o].logs[k].message = "runtime log"
        /\ rs.run[o].traces # <<>>

\* C5: with two runs in flight, every entry of a run's logs and traces
\* carries that run's id.
C5_NoCrossContamination ==
    \A o \in Runs :
        /\ \A k \in 1..Len(rs.run[o].logs) : rs.run[o].logs[k].run_id = rs.run[o].id
        /\ \A k \in 1..Len(rs.run[o].traces) : rs.run[o].traces[k].run_id = rs.run[o].id

C5_Witness ==
    /\ \A o \in Runs :
        /\ pc[o] = "execute"
        /\ \E k \in 1..Len(rs.run[o].logs) : rs.run[o].logs[k].message = "runtime log"
    /\ \E o \in Runs : rs.run[o].traces # <<>>

\* The runtime calls made for run o by the method named.
CallsOf(o, name) == {k \in 1..Len(calls[o]) : calls[o][k].call = name}

\* C14: every runtime that execute() obtained from new_runtime has been
\* disposed exactly once when execute() returns: as many dispose() calls were
\* made for a run as runtimes were obtained for it, each of which was executed.
C14_DisposedOnce ==
    \A o \in Runs :
        pc[o] = "returned" =>
            Cardinality(CallsOf(o, "dispose")) = Cardinality(CallsOf(o, "execute"))

\* C15: when execute() returns, the run's status is completed, failed or
\* suspended, never pending or running, whatever the runtime call yielded.
C15_StatusOnReturn ==
    \A o \in Runs :
        pc[o] = "returned" => rs.run[o].status \in {"completed", "failed", "suspended"}

RunTraces == {m \in TraceMessages : m.run_id \in {IdOf(o) : o \in Runs}}

NextTrace ==
    \/ \E o \in Runs : Register(o)
    \/ \E o \in Runs : EvalRegister(o)
    \/ \E m \in RunTraces : HandleTraceCall(m, MaxTraces)
    \/ \E m \in RunTraces : EvalHandleTraceCall(m, MaxTraces)

SpecTrace == Init /\ [][NextTrace]_vars

\* The trace list t holds one entry per span_id, each the last message
\* received for its run and span.
OnePerSpan(t, recv) ==
    /\ \A j, k \in 1..Len(t) : t[j].span_id = t[k].span_id => j = k
    /\ \A k \in 1..Len(t) : t[k] = recv[t[k].span_id]

\* What receiving m does to the trace list t of the run registered under
\* m.run_id: a known span is replaced where it stands, a new one goes last.
Upserted(t, m, u) ==
    IF \E k \in 1..Len(t) : t[k].span_id = m.span_id
    THEN /\ Len(u) = Len(t)
         /\ \A k \in 1..Len(t) : u[k] = IF t[k].span_id = m.span_id THEN m ELSE t[k]
    ELSE u = Append(t, m)

TraceStep(st, m, st2) ==
    \A o \in Runs :
        IF st.runs[m.run_id] = o
        THEN Upserted(st.run[o].traces, m, st2.run[o].traces)
        ELSE st2.run[o].traces = st.run[o].traces

\* C6: in RunService and in EvalRunService, a run's traces hold at most one
\* entry per span_id, equal to the last message received with it; a message
\* with a new span_id is appended at the end, one with a known span_id
\* replaces that entry and changes neither the length nor any other entry.
C6_SpanUpsert ==
    /\ [](\A o \in Runs :
            /\ OnePerSpan(rs.run[o].traces, rs.recv[rs.run[o].id])
            /\ OnePerSpan(es.run[o].traces, es.recv[es.run[o].id]))
    /\ [][\A m \in RunTraces :
            /\ HandleTraceCall(m, MaxTraces) => TraceStep(rs, m, rs')
            /\ EvalHandleTraceCall(m, MaxTraces) => TraceStep(es, m, es')]_vars

C6_Witness ==
    \E o, p \in Runs :
        /\ Len(rs.run[o].traces) = 2
        /\ rs.run[o].traces[1].status = "completed"
        /\ rs.run[o].traces[2].status = "started"
        /\ Len(es.run[p].traces) = 1
        /\ es.run[p].traces[1].status = "completed"

(***************************************************************************)
(* SpecEval: eval runs driven through EvalRunService.execute(), every      *)
(* outcome of the set-up and of the evaluation                             *)
(***************************************************************************)
NextEval ==
    \/ \E o \in Runs : EvalRegister(o)
    \/ \E o \in Runs : EvalExecBegin(o, MaxEvalExec)
    \/ \E o \in Runs : \E oc \in SetupOutcomes : EvalSetup(o, oc)
    \/ \E o \in Runs : \E oc \in EvaluateOutcomes : EvalExecuteEval(o, oc)

SpecEval == Init /\ [][NextEval]_vars

(***************************************************************************)
(* SpecParse: the same, up to MaxParseExec invocations, for the claims     *)
(* that go through every result payload                                    *)
(***************************************************************************)
NextParse ==
    \/ \E o \in Runs : EvalRegister(o)
    \/ \E o \in Runs : EvalExecBegin(o, MaxParseExec)
    \/ \E o \in Runs : \E oc \in SetupOutcomes : EvalSetup(o, oc)
    \/ \E o \in Runs : \E oc \in EvaluateOutcomes : EvalExecuteEval(o, oc)

SpecParse == Init /\ [][NextParse]_vars

(***************************************************************************)
(* Claims about EvalRunService.execute                                     *)
(***************************************************************************)
\* C11: on every failure path of EvalRunService.execute, when the exception
\* reaches the caller the run has status failed, an error and an end_time,
\* and on_run_updated(run) was called after those writes.
C11_EvalFailureConsistent ==
    \A o \in Runs :
        epc[o] = "raised" =>
            /\ es.exc[o] # None
            /\ es.run[o].status = "failed"
            /\ es.run[o].error # NoError
            /\ es.run[o].end_time # None
            /\ ~es.stale[o]
            /\ es.runs[es.run[o].id] = o

C11_Witness ==
    \E o, p \in Runs :
        /\ epc[o] = "raised" /\ es.run[o].error.code = "SystemExit"
        /\ epc[p] = "raised" /\ es.run[p].error.code = "CancelledError"
        /\ es.exc[p] = "RuntimeError"

\* The result of parsing, in the state before execute() resumes with oc.
ParsedFor(o, oc) ==
    ParseEvalResults(es.run[o].evaluation_results, oc.output,
                     es.run[o].output_file, oc.file)
\* Neither the in-memory output nor the file gives data.
NoDataFor(o, oc) ==
    /\ ~PyTruth(FromOutput(oc.output))
    /\ es.run[o].output_file = None \/ ~PyTruth(FromFile(oc.file))

\* C12: _parse_eval_results raises for no shape of the result payload and no
\* state of the output file; when neither gives data, evaluation_results is
\* left as it is and execute() ends with status completed.
C12_ParseNeverRaises ==
    [][\A o \in Runs : \A oc \in EvaluateOutcomes :
        (oc.kind = "result" /\ EvalExecuteEval(o, oc)) =>
            /\ ParsedFor(o, oc).raised = None
            /\ NoDataFor(o, oc) =>
                    /\ es'.run[o].evaluation_results = es.run[o].evaluation_results
                    /\ es'.run[o].status = "completed"
                    /\ epc'[o] = "returned"]_vars

\* The in-memory output parses: it is a dict, or a text that json.loads
\* accepts.
MemoryParses(output) ==
    \/ output.form = "dict"
    \/ output.form = "str" /\ JsonLoads(output.text).ok

\* evaluation_results after the step is what parsing data adds to it.
PopulatedFrom(o, data) ==
    es'.run[o].evaluation_results =
        ParseData(data, es.run[o].evaluation_results).out

\* C13 as claimed: evaluation_results is populated from the in-memory output
\* whenever that output parses; the file is used only when the in-memory
\* output is absent or does not parse, and then populates evaluation_results
\* if it holds valid matching JSON; with neither, nothing is added.
C13_FallbackChain ==
    [][\A o \in Runs : \A oc \in EvaluateOutcomes :
        (oc.kind = "result" /\ EvalExecuteEval(o, oc)) =>
            /\ MemoryParses(oc.output) => PopulatedFrom(o, FromOutput(oc.output))
            /\ (~MemoryParses(oc.output) /\ es.run[o].output_file # None
                    /\ PyTruth(FromFile(oc.file))) =>
                    PopulatedFrom(o, FromFile(oc.file))
            /\ (~MemoryParses(oc.output)
                    /\ (es.run[o].output_file = None \/ ~PyTruth(FromFile(oc.file)))) =>
                    es'.run[o].evaluation_results = es.run[o].evaluation_results]_vars

\* C13 as amended: evaluation_results is populated from the in-memory output
\* whenever that output parses to a non-empty value; when it is absent, does
\* not parse, or parses to an empty value ({} for one), the file at
\* output_file is read, and populates evaluation_results if it holds valid
\* non-empty JSON; with neither, nothing is added.
C13_FallbackOnEmpty ==
    [][\A o \in Runs : \A oc \in EvaluateOutcomes :
        (oc.kind = "result" /\ EvalExecuteEval(o, oc)) =>
            /\ PyTruth(FromOutput(oc.output)) =>
                    PopulatedFrom(o, FromOutput(oc.output))
            /\ (~PyTruth(FromOutput(oc.output)) /\ es.run[o].output_file # None
                    /\ PyTruth(FromFile(oc.file))) =>
                    PopulatedFrom(o, FromFile(oc.file))
            /\ NoDataFor(o, oc) =>
                    es'.run[o].evaluation_results = es.run[o].evaluation_results]_vars

\* A run took its results from the file.
C13_Witness ==
    \E o \in Runs :
        /\ epc[o] = "returned"
        /\ es.run[o].status = "completed"
        /\ Len(es.run[o].evaluation_results) = 1
        /\ es.run[o].evaluation_results[1].eval_id = "f1"

\* C20: once an EvalRun is completed or failed, no EvalRunService operation
\* changes its status, evaluation_results, error, start_time or end_time; a
\* further execute() leaves them as they were.
C20_TerminalImmutable ==
    [][\A o \in Runs :
        es.run[o].status \in Terminal =>
            /\ es'.run[o].status = es.run[o].status
            /\ es'.run[o].evaluation_results = es.run[o].evaluation_results
            /\ es'.run[o].error = es.run[o].error
            /\ es'.run[o].start_time = es.run[o].start_time
            /\ es'.run[o].end_time = es.run[o].end_time]_vars

\* C21: a SystemExit raised during EvalRunService.execute leaves the run
\* failed with error.code "SystemExit", and the caller of execute() receives
\* a RuntimeError, never the SystemExit.
C21_SystemExitConverted ==
    \A o \in Runs :
        (epc[o] = "raised" /\ ecall[o].kind = "raise" /\ ecall[o].exc = "SystemExit") =>
            /\ es.run[o].status = "failed"
            /\ es.run[o].error.code = "SystemExit"
            /\ es.exc[o] = "RuntimeError"

\* An execute() ended on a SystemExit of the evaluation.
C21_Witness ==
    \E o \in Runs :
        /\ epc[o] = "raised"
        /\ ecall[o] = [kind |-> "raise", exc |-> "SystemExit"]
        /\ es.run[o].error.code = "SystemExit"
        /\ es.exc[o] = "RuntimeError"

\* C22: an exception other than SystemExit raised during
\* EvalRunService.execute leaves the run failed with error.code the name of
\* the exception's type; the caller receives the exception itself when it is
\* an Exception and a RuntimeError when it is any other BaseException.  An
\* exception of the result parsing is an Exception.
C22_OtherExceptions ==
    \A o \in Runs :
        /\ (epc[o] = "raised" /\ ecall[o].kind = "raise" /\ ecall[o].exc # "SystemExit") =>
                /\ es.run[o].status = "failed"
                /\ es.run[o].error.code = ecall[o].exc
                /\ es.exc[o] = IF IsException(ecall[o].exc) THEN ecall[o].exc
                               ELSE "RuntimeError"
        /\ (epc[o] = "raised" /\ ecall[o].kind = "result") =>
                /\ es.run[o].status = "failed"
                /\ IsException(es.run[o].error.code)
                /\ es.exc[o] = es.run[o].error.code

\* One execute() ended on an Exception, which the caller received, and one on
\* a cancellation, which the caller received wrapped.
C22_Witness ==
    \E o, p \in Runs :
        /\ epc[o] = "raised" /\ ecall[o] = [kind |-> "raise", exc |-> "ValueError"]
        /\ es.exc[o] = "ValueError"
        /\ epc[p] = "raised" /\ ecall[p] = [kind |-> "raise", exc |-> "CancelledError"]
        /\ es.run[p].error.code = "CancelledError"
        /\ es.exc[p] = "RuntimeError"

(***************************************************************************)
(* SpecFailure: runs of both services driven through execute(), with the   *)
(* outcomes that end in success and in each failure path                   *)
(***************************************************************************)
RunFailureOutcomes ==
    RouteOutcomes \cup {[kind |-> "raise", exc |-> "UiPathRuntimeError"]}
FailureOutcomes ==
    {EvalOutcome("result", None, DictOutput(Doc(<<GoodEntry("m1")>>)), "missing"),
     EvalOutcome("result", None, DictOutput(NullResultsObject), "missing"),
     EvalOutcome("raise", "SystemExit", NoOutput, "missing"),
     EvalOutcome("raise", "CancelledError", NoOutput, "missing")}

NextFailure ==
    \/ \E o \in Runs : Register(o)
    \/ \E o \in Runs : ExecBegin(o, MaxFailExec)
    \/ \E o \in Runs : \E oc \in FactoryOutcomes : NewRuntime(o, oc)
    \/ \E o \in Runs : \E oc \in RunFailureOutcomes : RuntimeExecute(o, oc)
    \/ \E o \in Runs : EvalRegister(o)
    \/ \E o \in Runs : EvalExecBegin(o, MaxFailExec)
    \/ \E o \in Runs : \E oc \in SetupOutcomes : EvalSetup(o, oc)
    \/ \E o \in Runs : \E oc \in FailureOutcomes : EvalExecuteEval(o, oc)

SpecFailure == Init /\ [][NextFailure]_vars

Last(q) == q[Len(q)]

\* C17: whenever RunService.execute or EvalRunService.execute ends with the
\* run's status failed, the run's logs hold a line written on that failure
\* path: the last line of its logs is an error line of that run, and the
\* final on_run_updated came after it.
C17_FailureLogged ==
    /\ \A o \in Runs :
        (pc[o] = "returned" /\ rs.run[o].status = "failed") =>
            /\ rs.run[o].logs # <<>>
            /\ Last(rs.run[o].logs).level = "ERROR"
            /\ Last(rs.run[o].logs).run_id = rs.run[o].id
            /\ ~rs.stale[o]
    /\ \A o \in Runs :
        (epc[o] = "raised" /\ es.run[o].status = "failed") =>
            /\ es.run[o].logs # <<>>
            /\ Last(es.run[o].logs).level = "ERROR"
            /\ Last(es.run[o].logs).run_id = es.run[o].id
            /\ ~es.stale[o]

C17_Witness ==
    \E o, p \in Runs :
        /\ pc[o] = "returned" /\ rs.run[o].status = "failed"
        /\ Last(rs.run[o].logs).level = "ERROR"
        /\ epc[p] = "raised" /\ es.run[p].status = "failed"
        /\ Last(es.run[p].logs).level = "ERROR"

(***************************************************************************)
(* SpecObs: both services built with the three observer callbacks, logs    *)
(* and traces arriving from outside while a run is registered and executed *)
(***************************************************************************)
WithObservers(st) ==
    [st EXCEPT !.on_run_updated = Observer, !.on_log = Observer, !.on_trace = Observer]

InitObs ==
    /\ rs = WithObservers(InitService)
    /\ pc = [o \in Runs |-> "idle"]
    /\ loc = [o \in Runs |-> NoLocals]
    /\ calls = [o \in Runs |-> <<>>]
    /\ execs = 0
    /\ msgs = 0
    /\ es = WithObservers(InitEvalService)
    /\ epc = [o \in Runs |-> "idle"]
    /\ ecall = [o \in Runs |-> NoEvalCall]
    /\ InitBridge
    /\ InitOther

\* The run that is registered and executed here; the ids of the other run
\* and of no run stay unknown to both services.
ObsRun == "A"
\* Two messages for the run, told apart by their text, and one for each
\* unknown run_id.
ObsLogs ==
    {LogMessage(IdOf(ObsRun), "INFO", t) : t \in {"m1", "m2"}}
        \cup {LogMessage(i, "INFO", "m1") : i \in RunIds \ {IdOf(ObsRun)}}
ObsTraces ==
    {TraceMessage(i, "s1", "started") : i \in {IdOf(ObsRun), "Z"}}

NextObs ==
    \/ rs.runs[IdOf(ObsRun)] = NoRun /\ Register(ObsRun)
    \/ es.runs[IdOf(ObsRun)] = NoRun /\ EvalRegister(ObsRun)
    \/ \E m \in ObsLogs : HandleLogMsg(m, MaxObs)
    \/ \E m \in ObsLogs : EvalHandleLogCall(m, MaxObs)
    \/ \E m \in ObsTraces : HandleTraceCall(m, MaxObs)
    \/ \E m \in ObsTraces : EvalHandleTraceCall(m, MaxObs)
    \/ rs.run[ObsRun].status = "pending" /\ ExecBegin(ObsRun, MaxExec)
    \/ NewRuntime(ObsRun, [kind |-> "runtime"])
    \/ \E oc \in RouteOutcomes : RuntimeExecute(ObsRun, oc)

SpecObs == InitObs /\ [][NextObs]_vars

\* What a call with a run_id that is not in the run table of st leaves as it
\* is: every run's fields, the run table, and the calls on_run_updated got.
NothingStored(st, st2) ==
    /\ st2.run = st.run
    /\ st2.runs = st.runs
    /\ st2.on_run_updated = st.on_run_updated

\* C18: handle_log and handle_trace with a run_id that is not in the run
\* table store nothing, in either service: no run's logs or traces change,
\* the run table is unchanged, on_run_updated is not called, and the message
\* is passed to on_log / on_trace exactly once.
C18_UnknownRunStoresNothing ==
    [][/\ \A m \in ObsLogs :
            /\ (rs.runs[m.run_id] = NoRun /\ HandleLogMsg(m, MaxObs)) =>
                    /\ NothingStored(rs, rs')
                    /\ rs'.on_log.seen = Append(rs.on_log.seen, m)
                    /\ rs'.on_trace = rs.on_trace
            /\ (es.runs[m.run_id] = NoRun /\ EvalHandleLogCall(m, MaxObs)) =>
                    /\ NothingStored(es, es')
                    /\ es'.on_log.seen = Append(es.on_log.seen, m)
                    /\ es'.on_trace = es.on_trace
       /\ \A m \in ObsTraces :
            /\ (rs.runs[m.run_id] = NoRun /\ HandleTraceCall(m, MaxObs)) =>
                    /\ NothingStored(rs, rs')
                    /\ rs'.on_trace.seen = Append(rs.on_trace.seen, m)
                    /\ rs'.on_log = rs.on_log
            /\ (es.runs[m.run_id] = NoRun /\ EvalHandleTraceCall(m, MaxObs)) =>
                    /\ NothingStored(es, es')
                    /\ es'.on_trace.seen = Append(es.on_trace.seen, m)
                    /\ es'.on_log = es.on_log]_vars

\* Each service has a registered run with a log stored, and has passed a log
\* and a trace of an unknown run_id to its observers.
C18_Witness ==
    /\ \E o \in Runs : rs.runs[IdOf(o)] = o /\ rs.run[o].logs # <<>>
    /\ \E k \in 1..Len(rs.on_log.seen) : rs.runs[rs.on_log.seen[k].run_id] = NoRun
    /\ \E k \in 1..Len(es.on_trace.seen) : es.runs[es.on_trace.seen[k].run_id] = NoRun

\* The messages of q that carry run_id id, in the order of q.
ForRun(q, id) == SelectSeq(q, LAMBDA m : m.run_id = id)
\* The messages on_log of st2 got that on_log of st had not got yet.
NewlySeen(st, st2) ==
    SubSeq(st2.on_log.seen, Len(st.on_log.seen) + 1, Len(st2.on_log.seen))
IsSuffix(a, b) ==
    /\ Len(a) <= Len(b)
    /\ \A k \in 1..Len(a) : a[k] = b[Len(b) - Len(a) + k]

\* In a step from st to st2, the logs of run o grow by the messages with
\* its run_id passed to handle_log in that step, in call order, and by all
\* of them if the run was registered before the step.
LogsGrowInOrder(st, st2, o) ==
    LET passed == ForRun(NewlySeen(st, st2), st.run[o].id)
    IN  /\ SubSeq(st2.on_log.seen, 1, Len(st.on_log.seen)) = st.on_log.seen
        /\ Len(st2.run[o].logs) >= Len(st.run[o].logs)
        /\ SubSeq(st2.run[o].logs, 1, Len(st.run[o].logs)) = st.run[o].logs
        /\ IsSuffix(SubSeq(st2.run[o].logs, Len(st.run[o].logs) + 1,
                           Len(st2.run[o].logs)), passed)
        /\ st.runs[st.run[o].id] = o =>
                st2.run[o].logs = st.run[o].logs \o passed

\* C19: in both services, the logs of a registered run are the messages
\* passed to handle_log with its run_id, in call order: every step appends to
\* them the messages of that run_id passed in that step and removes, moves
\* or replaces none, and on_log got the same messages in the same order.
C19_LogOrder ==
    /\ [](\A o \in Runs :
            /\ IsSuffix(rs.run[o].logs, ForRun(rs.on_log.seen, rs.run[o].id))
            /\ IsSuffix(es.run[o].logs, ForRun(es.on_log.seen, es.run[o].id)))
    /\ [][\A o \in Runs :
            /\ LogsGrowInOrder(rs, rs', o)
            /\ LogsGrowInOrder(es, es', o)]_vars

\* Run A got m2, then the log of its own execute(), then m1 in RunService,
\* and a log in EvalRunService.
C19_Witness ==
    /\ \E i, j, k \in 1..Len(rs.run[ObsRun].logs) :
        /\ i < j /\ j < k
        /\ rs.run[ObsRun].logs[i].message = "m2"
        /\ rs.run[ObsRun].logs[j].message = "Starting execution"
        /\ rs.run[ObsRun].logs[k].message = "m1"
    /\ es.run[ObsRun].logs # <<>>

(***************************************************************************)
(* SpecBridge: a controller and NumCo coroutines on one debug bridge       *)
(***************************************************************************)
NextBridge ==
    \/ Connect
    \/ Disconnect
    \/ Resume
    \/ Quit
    \/ \E bps \in {"*", "[node]"} : SetBreakpoints(bps)
    \/ \E w \in Cos : WaitForResume(w)
    \/ \E w \in Cos : WakeUp(w)

SpecBridge == Init /\ [][NextBridge]_vars

\* The event loop runs every coroutine whose future is resolved.
FairBridge == SpecBridge /\ \A w \in Cos : WF_vars(WakeUp(w))

C8_ResumeRemembered ==
    (lastOp.op = "wait_for_resume" /\ lastOp.early) => BlockedSet(br) = {}

\* C8 as amended: a resume() made while no coroutine waits is not remembered:
\* wait_for_resume() clears the event first, so every call blocks, and a
\* blocked coroutine stays so until a resume(), quit() or disconnect() made
\* after its call.
C8_EveryWaitBlocks ==
    /\ lastOp.op = "wait_for_resume" =>
            /\ \E w \in Cos : Blocked(br, w) /\ co[w].pc = "waiting"
            /\ lastOp.freed = {}
            /\ ~br.event.value
    /\ \A w \in Cos : Blocked(br, w) => ~br.event.value /\ co[w].pc = "waiting"
    /\ \A w \in Cos : co[w].pc \in {"returned", "quit"} =>
            co[w].by \in {"resume", "quit", "disconnect", "quit, connect"}

C8_Witness ==
    /\ lastOp.op = "wait_for_resume"
    /\ lastOp.early
    /\ \E w \in Cos : Blocked(br, w)

\* C9 as claimed: with two or more coroutines blocked, one resume() releases
\* exactly one of them and the others stay blocked.
C9_ResumeReleasesOne ==
    lastOp.op = "resume" => Cardinality(lastOp.freed) <= 1

\* C9 as amended: one resume() releases every coroutine that is blocked in
\* wait_for_resume() when it is called; none stays blocked.
C9_ResumeReleasesAll ==
    lastOp.op = "resume" =>
        /\ BlockedSet(br) = {}
        /\ br.event.value

C9_Witness ==
    lastOp.op = "resume" /\ Cardinality(lastOp.freed) >= 2

\* C10: disconnect() releases every coroutine blocked in wait_for_resume()
\* when it is called, and each of them leaves its wait.
C10_DisconnectUnblocks ==
    /\ [](lastOp.op = "disconnect" =>
            /\ BlockedSet(br) = {})
    /\ \A w \in Cos :
        (co[w].pc = "waiting" /\ co[w].by = "disconnect") ~> (co[w].pc # "waiting")

C10_Witness ==
    \E w \in Cos :
        /\ co[w].pc \in {"returned", "quit"}
        /\ co[w].by = "disconnect"
        /\ ~br.connected

(***************************************************************************)
(* SpecModel: an EvalRun with up to MaxResults evaluation results, its     *)
(* overall_score read and its dictionary written and read back              *)
(***************************************************************************)
\* The evaluator results of one evaluation.
SampleEvaluatorResults ==
    {<<>>,
     <<EvaluatorResultOf("ev1", "Exact", Num(100), "", 0, "same")>>,
     <<EvaluatorResultOf("ev1", "Exact", Num(100), "d", 3, ""),
       EvaluatorResultOf("ev2", "Judge", Num(50), "", 0, "partial")>>,
     <<EvaluatorResultOf("ev2", "Judge", Num(0), "", 1, "")>>,
     <<EvaluatorResultOf("ev2", "Judge", PyNone, "", 0, "")>>}

EvalIds == <<"e1", "e2", "e3", "e4">>
RECURSIVE SampleResults(_)
SampleResults(n) ==
    IF n = 0 THEN {<<>>}
    ELSE LET shorter == SampleResults(n - 1)
         IN  shorter \cup
             {Append(rs0, EvaluationResult(EvalIds[Len(rs0) + 1], "case", evrs)) :
                 rs0 \in {q \in shorter : Len(q) = n - 1},
                 evrs \in SampleEvaluatorResults}

\* Runs as the console builds them and as EvalRunService.execute leaves
\* them: pending or completed with no end_time and no error, failed with
\* both.
SampleRuns ==
    {EvalRunOf("r1", name, "pending", start_time, NoTime, refs, NoError, options) :
        name \in {<<>>, <<"Eval: ", "a">>},
        start_time \in {DateTime(1, 0), DateTime(1, 5)},
        refs \in {<<>>, <<"ev1">>},
        options \in {Options(1, <<>>, None), Options(4, <<"e1">>, "out.json")}}

Outcomes ==
    {[status |-> "pending", end_time |-> NoTime, error |-> NoError],
     [status |-> "completed", end_time |-> NoTime, error |-> NoError],
     [status |-> "failed", end_time |-> DateTime(2, 0),
      error |-> [code |-> "SystemExit", title |-> "exited with code", detail |-> ""]],
     [status |-> "failed", end_time |-> DateTime(2, 7),
      error |-> [code |-> "ValueError", title |-> "str(e)", detail |-> "format_exc"]]}

InitModel ==
    /\ InitRunService /\ InitEval /\ InitBridge
    /\ cb = InitCallbacks
    /\ \E r \in SampleRuns, oc \in Outcomes, results \in SampleResults(MaxResults) :
          evalrun = [r EXCEPT !.status = oc.status, !.end_time = oc.end_time,
                              !.error = oc.error,
                              !.evaluation_results = results,
                              !.logs = IF oc.status = "pending" THEN <<>>
                                       ELSE <<"Starting evaluation run...">>]
    /\ ret = NoCall
    /\ chat = InitChat
    /\ files = InitFiles

NextModel ==
    \/ OverallScoreCall
    \/ ToDictCall
    \/ FromDictCall
    \/ \E i \in 1..MaxResults : PassedCall(i)

SpecModel == InitModel /\ [][NextModel]_vars

\* The sum and the number of all evaluator scores of a run, counted
\* evaluation by evaluation.
RECURSIVE Total(_)
Total(evaluation_results) ==
    IF evaluation_results = <<>> THEN [sum |-> 0, count |-> 0]
    ELSE LET evrs == Head(evaluation_results).evaluator_results
             rest == Total(Tail(evaluation_results))
             Part[j \in 0..Len(evrs)] ==
                 IF j = 0 THEN 0 ELSE Part[j - 1] + evrs[j].score.n
         IN  [sum |-> Part[Len(evrs)] + rest.sum, count |-> Len(evrs) + rest.count]

\* C23: overall_score is the mean of all evaluator scores of the run, every
\* evaluator result weighing the same, and 0.0 when there is none; the scores
\* being numbers.
C23_OverallScoreIsMean ==
    (ret.op = "overall_score" /\ ~OverallScoreRaises(evalrun.evaluation_results)) =>
        LET t == Total(evalrun.evaluation_results)
        IN  /\ ret.raised = None
            /\ ret.value.den > 0
            /\ IF t.count = 0 THEN ret.value.num = 0
               ELSE ret.value.num * t.count = t.sum * ret.value.den

\* The scores [1.0, 0.5] and [1.0] give 2.5 / 3.
C23_Witness ==
    /\ ret.op = "overall_score"
    /\ Len(evalrun.evaluation_results) = 2
    /\ ScoresOf(evalrun.evaluation_results[1].evaluator_results) = <<Num(100), Num(50)>>
    /\ ScoresOf(evalrun.evaluation_results[2].evaluator_results) = <<Num(100)>>
    /\ ret.value = Ratio(250, 3)

\* The members of an EvalRun that the serialization carries.
Serialized(r) ==
    [id |-> r.id, name |-> r.name, eval_set_path |-> r.eval_set_path,
     entrypoint |-> r.entrypoint, status |-> r.status,
     start_time |-> r.start_time, end_time |-> r.end_time,
     evaluator_refs |-> r.evaluator_refs,
     evaluation_results |-> r.evaluation_results,
     error |-> r.error, options |-> r.options]

LookupRuns == {"o1", "o2", "o3"}
LookupIds == {"r1", "r2", "r3"}
LookupPaths ==
    {PathOf(<<"evals">>, <<"a", "json">>),
     PathOf(<<"other">>, <<"a", "json">>),
     PathOf(<<"evals">>, <<"a", "tar", "json">>)}
LookupNames == {<<"a">>, <<"b">>, <<"a", "tar">>, <<"a", "json">>}
LookupTimes == {DateTime(1, 0), DateTime(1, 5), DateTime(2, 0)}

InitLookupService(ids, paths, times) ==
    [runs |-> [i \in LookupIds |-> NoRun],
     run |-> [o \in LookupRuns |->
                [EvalRunOf(ids[o], <<>>, "running", times[o], NoTime, <<>>, NoError,
                           Options(1, <<>>, None))
                    EXCEPT !.eval_set_path = paths[o]]],
     stale |-> [o \in LookupRuns |-> FALSE],
     exc |-> [o \in LookupRuns |-> None],
     recv |-> [i \in LookupIds |-> [s \in SpanIds |-> NoMessage]],
     on_run_updated |-> NoObserver, on_log |-> NoObserver, on_trace |-> NoObserver]

InitLookup ==
    /\ InitRunService /\ InitBridge /\ InitOther
    /\ \E id3 \in {"r1", "r3"} :
       \E paths \in [LookupRuns -> LookupPaths], times \in [LookupRuns -> LookupTimes] :
          es = InitLookupService([o \in LookupRuns |->
                                     IF o = "o1" THEN "r1"
                                     ELSE IF o = "o2" THEN "r2" ELSE id3],
                                 paths, times)
    /\ epc = [o \in Runs |-> "idle"]
    /\ ecall = [o \in Runs |-> NoEvalCall]

NextLookup ==
    \/ \E o \in LookupRuns : EvalRegisterCall(o)
    \/ \E n \in LookupNames : GetRunsForEvalSetCall(n)

SpecLookup == InitLookup /\ [][NextLookup]_vars

\* C25: get_runs_for_eval_set(name) returns the registered EvalRuns whose
\* eval_set_path has the stem name, each once and no other run, the later
\* start_time first, and leaves the run table as it was.
C25_RunsForEvalSet ==
    /\ [](ret.op = "get_runs_for_eval_set" =>
            LET runs == ret.value.runs
                name == ret.value.eval_set_name
            IN  /\ \A k \in 1..Len(runs) :
                       /\ runs[k] \in Registered(es)
                       /\ Stem(es.run[runs[k]].eval_set_path) = name
                /\ \A o \in Registered(es) :
                       Stem(es.run[o].eval_set_path) = name =>
                           \E k \in 1..Len(runs) : runs[k] = o
                /\ \A j, k \in 1..Len(runs) : j # k => runs[j] # runs[k]
                /\ \A j, k \in 1..Len(runs) :
                       j < k => ~Later(es.run[runs[k]].start_time,
                                       es.run[runs[j]].start_time))
    /\ [][ret'.op = "get_runs_for_eval_set" => es' = es]_vars

\* Of three registered runs, the two of the eval set came back, the later
\* one first.
C25_Witness ==
    /\ ret.op = "get_runs_for_eval_set"
    /\ Cardinality(Registered(es)) = 3
    /\ Len(ret.value.runs) = 2
    /\ Later(es.run[ret.value.runs[1]].start_time, es.run[ret.value.runs[2]].start_time)
    /\ es.run[ret.value.runs[1]].eval_set_path # es.run[ret.value.runs[2]].eval_set_path

(***************************************************************************)
(* SpecNotify: the runtime emits notifications on the bridge while the     *)
(* controller attaches and detaches its callbacks                          *)
(***************************************************************************)
NextNotify ==
    \/ \E k \in Notifications : \E attached \in BOOLEAN : SetCallback(k, attached)
    \/ \E k \in Notifications : Emit(k, MaxEmit)

SpecNotify == Init /\ [][NextNotify]_vars

\* C26: every notification emitted on the bridge reaches the controller, also
\* when no callback is attached at the moment of the emit.
C26_NeverSkipped == cb.delivered = cb.emitted

(***************************************************************************)
(* SpecChat: conversation events of two messages added in any order        *)
(***************************************************************************)
\* Per message and content part: a start, chunks, the start, chunk and end
\* in one event as get_user_message_event builds it (chat.py:189-229), and
\* an end alone; a chunk without data; a tool call start and end; an event
\* without a message.
ChatEventSet ==
    UNION {
        {ChatEvent(k[1], None, ContentPartEvent(k[2], "application/json", "absent", "absent"),
                   NoToolCall),
         ChatEvent(k[1], None, ContentPartEvent(k[2], None, "a", "absent"), NoToolCall),
         ChatEvent(k[1], None, ContentPartEvent(k[2], None, "b", "absent"), NoToolCall),
         ChatEvent(k[1], "user", ContentPartEvent(k[2], "text/plain", "a", "done"),
                   NoToolCall),
         ChatEvent(k[1], None, ContentPartEvent(k[2], None, "absent", "interrupted"),
                   NoToolCall)} :
        k \in {<<"m1", "p1">>, <<"m1", "p2">>, <<"m2", "p1">>}}
    \cup {ChatEvent("m1", None, ContentPartEvent("p1", None, "none", "absent"), NoToolCall),
          ChatEvent("m1", None, NoContentPart, ToolCallEvent("t1", "search", None)),
          ChatEvent("m1", None, NoContentPart, ToolCallEvent("t1", None, "found")),
          NoExchange}

NextChat == \E ev \in ChatEventSet : Add(ev, MaxEvents)

SpecChat == Init /\ [][NextChat]_vars

\* The events seen for a message, and the chunk data seen for a content
\* part of it, in arrival order.
EventsOf(events, m) ==
    LET Of(ev) == ev.message /\ ev.message_id = m
    IN  SelectSeq(events, Of)
RECURSIVE ChunksOf(_, _, _)
ChunksOf(events, m, p) ==
    IF events = <<>> THEN <<>>
    ELSE LET ev == Head(events)
         IN  (IF ev.message /\ ev.message_id = m /\ ev.content_part.present
                    /\ ev.content_part.content_part_id = p
              THEN ChunkData(ev.content_part.chunk) ELSE <<>>)
                 \o ChunksOf(Tail(events), m, p)
\* A start or a chunk event named content part p of message m.
Opened(events, m, p) ==
    \E i \in 1..Len(events) :
        /\ events[i].message /\ events[i].message_id = m
        /\ events[i].content_part.present
        /\ events[i].content_part.content_part_id = p
        /\ (events[i].content_part.start # None \/ events[i].content_part.chunk # "absent")
PartsOf(msg, p) ==
    {i \in 1..Len(msg.content_parts) : msg.content_parts[i].content_part_id = p}

\* C27: after any sequence of add calls there is one aggregated message per
\* message_id seen, built once and mutated by the later events; it has one
\* content part per content_part_id that a start or a chunk event named
\* (an end event alone adds none) and never two of one id, and the inline
\* text of the part is the chunk data of the events for that message_id and
\* content_part_id, concatenated in arrival order.
C27_ChatAggregation ==
    \A m \in MessageIds :
        LET msg == chat.messages[m]
        IN  /\ msg.exists <=> EventsOf(chat.events, m) # <<>>
            /\ chat.made[m] = IF msg.exists THEN 1 ELSE 0
            /\ \A p \in PartIds :
                   /\ Cardinality(PartsOf(msg, p)) =
                          IF Opened(chat.events, m, p) THEN 1 ELSE 0
                   /\ \A i \in PartsOf(msg, p) :
                          msg.content_parts[i].inline = ChunksOf(chat.events, m, p)

\* Three chunks of one content part arrived, "b" between two "a", the last
\* in an event that also starts and ends the part.
C27_Witness ==
    /\ Len(chat.events) = 3
    /\ chat.made["m1"] = 1
    /\ Len(chat.messages["m1"].content_parts) = 1
    /\ chat.messages["m1"].content_parts[1].inline = <<"a", "b", "a">>
    /\ chat.messages["m1"].content_parts[1].mime_type = "text/plain"
    /\ ~chat.messages["m1"].content_parts[1].is_incomplete

(***************************************************************************)
(* SpecRegister: three runs, two of which may carry the same id, are       *)
(* registered with both services in any order, again and again, with the   *)
(* on_run_updated callbacks attached                                       *)
(***************************************************************************)
RegisterIds(id3) ==
    [o \in LookupRuns |-> IF o = "o1" THEN "r1" ELSE IF o = "o2" THEN "r2" ELSE id3]

InitRegisterService(ids) ==
    [runs |-> [i \in LookupIds |-> NoRun],
     run |-> [o \in LookupRuns |-> [InitRun(o) EXCEPT !.id = ids[o]]],
     stale |-> [o \in LookupRuns |-> FALSE],
     hist |-> [o \in LookupRuns |-> <<"pending">>],
     recv |-> [i \in LookupIds |-> [s \in SpanIds |-> NoMessage]],
     on_run_updated |-> Observer, on_log |-> NoObserver, on_trace |-> NoObserver]

InitRegister ==
    /\ \E id3 \in {"r1", "r3"} :
          /\ rs = InitRegisterService(RegisterIds(id3))
          /\ es = [InitLookupService(RegisterIds(id3),
                                     [o \in LookupRuns |-> PathOf(<<"evals">>, <<"a", "json">>)],
                                     [o \in LookupRuns |-> DateTime(1, 0)])
                      EXCEPT !.on_run_updated = Observer]
    /\ pc = [o \in Runs |-> "idle"]
    /\ loc = [o \in Runs |-> NoLocals]
    /\ calls = [o \in Runs |-> <<>>]
    /\ execs = 0
    /\ msgs = 0
    /\ epc = [o \in Runs |-> "idle"]
    /\ ecall = [o \in Runs |-> NoEvalCall]
    /\ InitBridge
    /\ InitOther

NextRegister ==
    \/ \E o \in LookupRuns :
          Len(rs.on_run_updated.seen) < MaxRegister /\ Register(o)
    \/ \E o \in LookupRuns :
          Len(es.on_run_updated.seen) < MaxRegister /\ EvalRegister(o)

SpecRegister == InitRegister /\ [][NextRegister]_vars

\* The ids that have an entry in the run table.
Present(st) == {i \in DOMAIN st.runs : st.runs[i] # NoRun}

\* C28: register_run(run), on either service, makes get_run(run.id) return
\* run, calls on_run_updated(run) once, and leaves every other entry of the
\* run table as it was; when the id is already present the entry is replaced
\* and the table gains no entry.
C28_RegisterFrame ==
    [][\A o \in LookupRuns :
        /\ Register(o) =>
              /\ GetRun(rs', rs.run[o].id) = o
              /\ rs'.on_run_updated.seen = Append(rs.on_run_updated.seen, o)
              /\ \A i \in LookupIds \ {rs.run[o].id} : rs'.runs[i] = rs.runs[i]
              /\ Present(rs') = Present(rs) \cup {rs.run[o].id}
        /\ EvalRegister(o) =>
              /\ EvalGetRun(es', es.run[o].id) = o
              /\ es'.on_run_updated.seen = Append(es.on_run_updated.seen, o)
              /\ \A i \in LookupIds \ {es.run[o].id} : es'.runs[i] = es.runs[i]
              /\ Present(es') = Present(es) \cup {es.run[o].id}]_vars

\* On both services a run was registered under an id that another run held,
\* beside a third entry.
C28_Witness ==
    /\ rs.on_run_updated.seen = <<"o2", "o1", "o3">>
    /\ rs.run["o3"].id = "r1"
    /\ rs.runs = [i \in LookupIds |-> IF i = "r1" THEN "o3" ELSE IF i = "r2" THEN "o2" ELSE NoRun]
    /\ es.on_run_updated.seen = <<"o1", "o3", "o2">>
    /\ es.runs = rs.runs

(***************************************************************************)
(* SpecStore: eval sets created through the service and through the        *)
(* console's create form                                                   *)
(***************************************************************************)
\* eval_set_create_panel.py:99-115: the form data, without evaluators and
\* evaluations; the panel sends no form with an empty id, the handler checks
\* it again.
FormData ==
    {[eval_set_id |-> i, name |-> n, evaluator_refs |-> <<>>, evaluations |-> <<>>] :
        i \in EvalSetIds \cup {""}, n \in {"first", "second"}}

NextStore ==
    \/ \E i \in EvalSetIds, n \in {"first", "second"}, e \in {<<>>, <<"case">>} :
          CreateEvalSetCall(i, n, e)
    \/ \E form_data \in FormData : OnEvalSetCreateCall(form_data)

SpecStore == Init /\ [][NextStore]_vars

\* C29: creating an eval set under an id that has a stored definition ends
\* in an error and leaves the stored definition as it was, through
\* create_eval_set and through the console's create action.
C29_DuplicateRejected ==
    (ret.op \in {"create_eval_set", "_on_eval_set_create"} /\ ret.value.existed) =>
        /\ ret.value.error
        /\ files.file[ret.value.eval_set_id] = ret.value.before

(***************************************************************************)
(* Input selection of RunService.execute                                   *)
(***************************************************************************)
\* The status the run had when the execute() in flight was entered: the one
\* before the "running" that the entry wrote.
StatusOnEntry(o) == rs.hist[o][Len(rs.hist[o]) - 1]

\* C30: when execute() calls the runtime, the call carries run.resume_data
\* and options.resume = true if the run was suspended on entry, and
\* run.input_data and options.resume = false in every other case.
C30_InputSelection ==
    [][\A o \in Runs :
        (pc[o] = "execute" /\ pc'[o] # "execute") =>
            LET call == Last(calls'[o])
                suspended == StatusOnEntry(o) = "suspended"
            IN  /\ call.call = "execute"
                /\ call.resume = suspended
                /\ call.input = IF suspended THEN rs.run[o].resume_data
                                ELSE rs.run[o].input_data]_vars

\* A run was executed from pending with its input_data, was suspended, and
\* was executed again with its resume_data.
C30_Witness ==
    \E o \in Runs :
        /\ Len(calls[o]) = 2
        /\ calls[o][1].call = "execute" /\ calls[o][1].input = "I" /\ ~calls[o][1].resume
        /\ calls[o][2].call = "execute" /\ calls[o][2].input = "R" /\ calls[o][2].resume
        /\ rs.hist[o][3] = "suspended"

(***************************************************************************)
(* Claims about the end of an eval run                                     *)
(***************************************************************************)
\* C31: every EvalRun that EvalRunService.execute leaves in a terminal
\* status (completed or failed) has an end_time, on the success path as on
\* the failure paths.
C31_TerminalHasEndTime ==
    \A o \in Runs :
        (epc[o] \in {"returned", "raised"}
            /\ es.run[o].status \in {"completed", "failed"}) =>
                es.run[o].end_time # None

(***************************************************************************)
(* Claims about the quit request                                           *)
(***************************************************************************)
\* C32: a quit() made while a coroutine is blocked in wait_for_resume() is
\* not lost: the coroutine quit() released ends its wait with the quit
\* signal whatever bridge operations (connect among them) run before the
\* coroutine is scheduled again.
C32_QuitNotLost ==
    \A w \in Cos :
        (co[w].by \in {"quit", "quit, connect"} /\ co[w].pc # "waiting") =>
            co[w].pc = "quit"

\* C33: the quit request is sticky until reconnect.  From a quit() to the
\* next connect() the request stays set; every wait_for_resume() that ends
\* in that span, whoever released it, ends with the quit signal and none
\* returns normally; and no operation but connect() clears the request.
C33_QuitSticky ==
    /\ [](lastOp.quit => br.quit_requested)
    /\ [][\A w \in Cos :
            (lastOp.quit /\ co[w].pc = "waiting" /\ co'[w].pc # "waiting") =>
                co'[w].pc = "quit"]_vars
    /\ [][(br.quit_requested /\ ~br'.quit_requested) => lastOp'.op = "connect"]_vars

\* After a quit() with no connect() since, one wait ended that resume()
\* released and one that disconnect() released, both with the quit signal.
C33_Witness ==
    /\ lastOp.quit
    /\ lastOp.op = "wake_up"
    /\ \E v, w \in Cos :
        /\ co[v].pc = "quit" /\ co[v].by = "resume"
        /\ co[w].pc = "quit" /\ co[w].by = "disconnect"

(***************************************************************************)
(* RunService.execute with observer callbacks that raise                   *)
(* A callback is a callable that raises on its calls number first..last    *)
(* (on none when first > last).  The helpers below are the helpers of      *)
(* RunService with the exception in flight carried along:                  *)
(*   t = [st, raised] : the service state, and the exception that left the *)
(*   statements run so far, or None                                        *)
(***************************************************************************)
MaxRaiseExec == 1   \* execute() invocations in one behaviour (SpecRaising)

RaisingObserver(first, last) ==
    [set |-> TRUE, seen |-> <<>>, first |-> first, last |-> last]
\* The call recorded last in obs.seen raised.
CallbackRaises(obs) ==
    obs.set /\ obs.first <= Len(obs.seen) /\ Len(obs.seen) <= obs.last

Going(st) == [st |-> st, raised |-> None]
Thrown(st, exc) == [st |-> st, raised |-> exc]
\* The statements F run only when nothing was raised before them.
AndThen(t, F(_)) == IF t.raised # None THEN t ELSE F(t.st)
\* st is the state after the callback `name` was called: its exception, if
\* it raised one, is in flight.
Called(st, name) ==
    IF CallbackRaises(st[name]) THEN Thrown(st, "Exception") ELSE Going(st)

\* run_service.py:175-179 _emit_run_updated
EmitRunUpdatedRaising(st, o) == Called(EmitRunUpdated(st, o), "on_run_updated")

\* run_service.py:148-156 handle_log: on_log is not reached when
\* on_run_updated raised.
HandleLogRaising(st, m) ==
    LET o == GetRun(st, m.run_id)
        t1 == IF o # NoRun
              THEN EmitRunUpdatedRaising([st EXCEPT !.run[o].logs = Append(@, m)], o)
              ELSE Going(st)
    IN  AndThen(t1, LAMBDA s : Called([s EXCEPT !.on_log = Notify(@, m)], "on_log"))

\* run_service.py:76-89: the try block up to the first await
ExecEntryRaising(st, o) ==
    LET resume == st.run[o].status = "suspended"
        t1 == HandleLogRaising(st, LogMessage(st.run[o].id, "INFO",
                  IF resume THEN "Resuming execution" ELSE "Starting execution"))
    IN  AndThen(t1, LAMBDA s :
            EmitRunUpdatedRaising(
                [SetStatus(s, o, "running") EXCEPT !.run[o].start_time = "t"], o))

\* run_service.py:108-127: the rest of the try block once the result is there
OnResultRaising(st, o, oc) ==
    LET s1 == IF oc.result.status = "suspended" /\ oc.result.resume
              THEN SetStatus(st, o, "suspended")
              ELSE SetStatus(
                       SetField(st, o, "output_data", OutputData(oc.result.output)),
                       o, "completed")
        t2 == IF Truthy(s1.run[o].output_data)
              THEN HandleLogRaising(s1, LogMessage(s1.run[o].id, "INFO", "Execution result"))
              ELSE Going(s1)
        t3 == AndThen(t2, LAMBDA s :
                  HandleLogRaising(s, LogMessage(s.run[o].id, "INFO",
                                                 "Execution completed successfully")))
    IN  AndThen(t3, LAMBDA s : Going(SetField(s, o, "end_time", "t")))

\* run_service.py:129-143: an except clause; an exception raised in it
\* leaves execute().
OnExceptionRaising(st, o, exc) ==
    LET t1 == HandleLogRaising(st, LogMessage(st.run[o].id, "ERROR", "traceback"))
    IN  AndThen(t1, LAMBDA s :
            Going(SetField(SetField(SetStatus(s, o, "failed"), o, "end_time", "t"),
                           o, "error", ErrorInfo(exc))))

\* run_service.py:145-146, the statements after the try block
FinishRaising(st, o) ==
    EmitRunUpdatedRaising([st EXCEPT !.runs[st.run[o].id] = o], o)

\* run_service.py:129-146: the end of execute() once its try block is over
\* with t, the exception in flight being one `except Exception` catches.
ExitRaising(t, o) ==
    IF t.raised = None THEN FinishRaising(t.st, o)
    ELSE AndThen(OnExceptionRaising(t.st, o, t.raised),
                 LAMBDA s : FinishRaising(s, o))

\* How execute() ended: it returned, or an exception reached its caller.
Ended(e) == IF e.raised = None THEN "returned" ELSE "raised"

\* run_service.py:75-97: entry of execute() up to `await new_runtime`
ExecBeginRaising(o, budget) ==
    /\ Idle(o)
    /\ execs < budget
    /\ LET t == ExecEntryRaising(rs, o)
           e == IF t.raised = None THEN t ELSE ExitRaising(t, o)
       IN  /\ rs' = e.st
           /\ pc' = [pc EXCEPT ![o] = IF t.raised = None THEN "new_runtime"
                                      ELSE Ended(e)]
    /\ loc' = [loc EXCEPT ![o] = [input |-> ExecutionInput(rs.run[o]),
                                  resume |-> rs.run[o].status = "suspended"]]
    /\ execs' = execs + 1
    /\ UNCHANGED <<calls, msgs, evalVars, bridgeVars, otherVars>>

\* run_service.py:106-146: `await execution_runtime.execute(...)` completes
RuntimeExecuteRaising(o, oc) ==
    /\ pc[o] = "execute"
    /\ calls' = [calls EXCEPT ![o] = Append(@,
          [call |-> "execute", input |-> loc[o].input, resume |-> loc[o].resume,
           outcome |-> oc])]
    /\ LET t == IF oc.kind = "raise" THEN Thrown(rs, oc.exc)
                ELSE OnResultRaising(rs, o, oc)
           e == ExitRaising(t, o)
       IN  /\ rs' = e.st
           /\ pc' = [pc EXCEPT ![o] = Ended(e)]
    /\ UNCHANGED <<loc, execs, msgs, evalVars, bridgeVars, otherVars>>

(***************************************************************************)
(* SpecRaising: runs, registered or not, executed with on_run_updated and  *)
(* on_log attached, each raising never, on every call, or on one of its    *)
(* first three calls; the runtime returns a result or raises an exception  *)
(* execute() catches                                                       *)
(***************************************************************************)
RaisingObservers ==
    {RaisingObserver(1, 0), RaisingObserver(1, 1), RaisingObserver(2, 2),
     RaisingObserver(3, 3), RaisingObserver(1, 99)}

RaisingOutcomes ==
    {[kind |-> "result", result |-> r] :
        r \in [status : {"successful", "suspended"}, resume : BOOLEAN, output : {"X"}]}
        \cup {[kind |-> "raise", exc |-> e] : e \in {"UiPathRuntimeError", "Exception"}}

InitRaising ==
    /\ \E u, l \in RaisingObservers, registered \in SUBSET Runs :
          rs = [InitService EXCEPT !.on_run_updated = u, !.on_log = l,
                                   !.on_trace = RaisingObserver(1, 0),
                                   !.runs = [i \in RunIds |->
                                                IF i \in registered THEN i ELSE NoRun]]
    /\ pc = [o \in Runs |-> "idle"]
    /\ loc = [o \in Runs |-> NoLocals]
    /\ calls = [o \in Runs |-> <<>>]
    /\ execs = 0
    /\ msgs = 0
    /\ InitEval
    /\ InitBridge
    /\ InitOther

NextRaising ==
    \/ \E o \in Runs : ExecBeginRaising(o, MaxRaiseExec)
    \/ \E o \in Runs : NewRuntime(o, [kind |-> "runtime"])
    \/ \E o \in Runs : \E oc \in RaisingOutcomes : RuntimeExecuteRaising(o, oc)

SpecRaising == InitRaising /\ [][NextRaising]_vars

\* C34: execute(run) returns normally even when on_run_updated or on_log
\* raises while it runs: no exception reaches the caller, and the run ends
\* in a terminal or suspended status.
C34_CallbackErrorContained ==
    \A o \in Runs :
        /\ pc[o] # "raised"
        /\ pc[o] = "returned" =>
               rs.run[o].status \in {"completed", "failed", "suspended"}

(***************************************************************************)
(* Claims about a SUSPENDED result without a resume flag                   *)
(***************************************************************************)
\* The runtime call returned a result with status SUSPENDED and no resume
\* flag.
SuspendedWithoutResume(call) ==
    /\ call.call = "execute"
    /\ call.outcome.kind = "result"
    /\ call.outcome.result.status = "suspended"
    /\ ~call.outcome.result.resume

\* C35: a result with status SUSPENDED whose resume flag is not set is a
\* normal completion: execute() returns with status completed and with
\* output_data the result's output (its dump when it is a model, the empty
\* mapping when there is none), and the next execute() on the run calls the
\* runtime with input_data and resume = false.
C35_SuspendedWithoutResume ==
    \A o \in Runs :
        /\ (Finished(o) /\ SuspendedWithoutResume(LastCall(o))) =>
                /\ pc[o] = "returned"
                /\ rs.run[o].status = "completed"
                /\ rs.run[o].output_data =
                      LET out == LastCall(o).outcome.result.output
                      IN  IF out = "None" THEN "{}"
                          ELSE IF out = "Model(X)" THEN "X"
                          ELSE out
        /\ \A k \in 2..Len(calls[o]) :
                (SuspendedWithoutResume(calls[o][k - 1]) /\ calls[o][k].call = "execute") =>
                    /\ calls[o][k].input = rs.run[o].input_data
                    /\ ~calls[o][k].resume

\* A run got a SUSPENDED result without the resume flag, ended completed,
\* and was executed again.
C35_Witness ==
    \E o \in Runs :
        /\ Len(calls[o]) = 2
        /\ SuspendedWithoutResume(calls[o][1])
        /\ rs.hist[o][3] = "completed"
        /\ calls[o][2].call = "execute"
        /\ calls[o][2].input = "I"
        /\ ~calls[o][2].resume

(***************************************************************************)
(* Claims about the log lines of execute()                                 *)
(***************************************************************************)
\* The entries of run o's logs with one of the messages.
LogLines(o, messages) ==
    {k \in 1..Len(rs.run[o].logs) : rs.run[o].logs[k].message \in messages}

\* C36: every log line execute() itself emits for a run is stored in
\* run.logs, registered or not: one starting or resuming line for each
\* entry of execute(), and, once execute() has returned, the completion line
\* or the error line of the last invocation as the last entry.
C36_OwnLogsStored ==
    \A o \in Runs :
        /\ Cardinality(LogLines(o, {"Starting execution", "Resuming execution"}))
              = Cardinality({k \in 1..Len(rs.hist[o]) : rs.hist[o][k] = "running"})
        /\ (pc[o] = "returned" /\ calls[o] # <<>>) =>
              /\ rs.run[o].logs # <<>>
              /\ Last(rs.run[o].logs).message =
                    IF LastCall(o).outcome.kind = "raise" THEN "traceback"
                    ELSE "Execution completed successfully"

(***************************************************************************)
(* Claims about EvaluationResult.passed                                    *)
(***************************************************************************)
\* C37: EvaluationResult.passed is true exactly when every evaluator result
\* it contains has score 1.0: one score below 1.0 (or no score) makes it
\* false, and with no evaluator results it is true.
C37_PassedIffAllOne ==
    ret.op = "passed" =>
        LET evrs == evalrun.evaluation_results[ret.value.index].evaluator_results
        IN  /\ ret.raised = None
            /\ ret.value.passed <=>
                   \A j \in 1..Len(evrs) : evrs[j].score = Num(100)
            /\ (\E j \in 1..Len(evrs) : ~evrs[j].score.none /\ evrs[j].score.n < 100)
                   => ~ret.value.passed
            /\ evrs = <<>> => ret.value.passed

\* passed was read as true on an evaluation without evaluator results, of a
\* run whose other evaluation has the scores 1.0 and 0.5.
C37_Witness ==
    /\ ret.op = "passed"
    /\ ret.value.passed
    /\ evalrun.evaluation_results[ret.value.index].evaluator_results = <<>>
    /\ \E i \in 1..Len(evalrun.evaluation_results) :
           ScoresOf(evalrun.evaluation_results[i].evaluator_results) = <<Num(100), Num(50)>>

(***************************************************************************)
(* EvaluatorService: the evaluators directory                              *)
(* fs = [exists, file]: whether the directory exists, and for each file    *)
(* name <name>.json the JSON stored in it, NoEvaluator when there is no    *)
(* such file.  An evaluator id and a file name are texts of one set.       *)
(***************************************************************************)
EvaluatorIds == {"x", "y"}

EvaluatorData(id, description) ==
    [stored |-> TRUE, id |-> id, description |-> description]
NoEvaluator == [stored |-> FALSE, id |-> None, description |-> None]

\* evaluator_service.py:14-26: the directory need not exist
InitEvaluators == [exists |-> FALSE, file |-> [n \in EvaluatorIds |-> NoEvaluator]]

\* The first file, in the order glob("*.json") yields them, whose "id" member
\* is the id; None when there is none.
FirstWithId(fs, evaluator_id, order) ==
    LET hits == {k \in 1..Len(order) :
                    fs.file[order[k]].stored /\ fs.file[order[k]].id = evaluator_id}
    IN  IF hits = {} THEN None
        ELSE order[CHOOSE k \in hits : \A j \in hits : k <= j]

\* evaluator_service.py:58-89 load_evaluator: <id>.json if it is there, else
\* the first file whose "id" member is the id; NoEvaluator stands for None.
LoadEvaluator(fs, evaluator_id, order) ==
    IF ~fs.exists THEN NoEvaluator
    ELSE IF fs.file[evaluator_id].stored THEN fs.file[evaluator_id]
    ELSE LET n == FirstWithId(fs, evaluator_id, order)
         IN  IF n = None THEN NoEvaluator ELSE fs.file[n]

\* evaluator_service.py:147-197 save_evaluator: the "id" member written is
\* the data's, the evaluator_id when the data has none (id = None); the file
\* written is <id>.json if it is there, else the first file whose "id" member
\* is the evaluator_id, else a new <id>.json.
SaveEvaluator(fs, evaluator_id, data, order) ==
    LET f1 == [fs EXCEPT !.exists = TRUE]
        evaluator_data ==
            EvaluatorData(IF data.id = None THEN evaluator_id ELSE data.id,
                          data.description)
        found == IF f1.file[evaluator_id].stored THEN evaluator_id
                 ELSE FirstWithId(f1, evaluator_id, order)
        file_path == IF found = None THEN evaluator_id ELSE found
    IN  [f1 EXCEPT !.file[file_path] = evaluator_data]

\* evaluator_service.py:199-212 delete_evaluator: the directory after it and
\* the value returned
DeleteEvaluator(fs, evaluator_id) ==
    IF fs.exists /\ fs.file[evaluator_id].stored
    THEN [files |-> [fs EXCEPT !.file[evaluator_id] = NoEvaluator], value |-> TRUE]
    ELSE [files |-> fs, value |-> FALSE]

SaveEvaluatorCall(evaluator_id, data, order) ==
    /\ files' = SaveEvaluator(files, evaluator_id, data, order)
    /\ ret' = Returned("save_evaluator", [evaluator_id |-> evaluator_id])
    /\ UNCHANGED <<runVars, evalVars, bridgeVars, cb, evalrun, chat>>

LoadEvaluatorCall(evaluator_id, order) ==
    /\ ret' = Returned("load_evaluator", LoadEvaluator(files, evaluator_id, order))
    /\ UNCHANGED <<runVars, evalVars, bridgeVars, cb, evalrun, chat, files>>

\* With the call are kept its argument, the value it returned, and whether
\* load_evaluator found the evaluator before it.
DeleteEvaluatorCall(evaluator_id) ==
    LET r == DeleteEvaluator(files, evaluator_id)
    IN  /\ files' = r.files
        /\ ret' = Returned("delete_evaluator",
                      [evaluator_id |-> evaluator_id, deleted |-> r.value,
                       found |-> \E order \in Orderings(EvaluatorIds) :
                                    LoadEvaluator(files, evaluator_id, order).stored])
        /\ UNCHANGED <<runVars, evalVars, bridgeVars, cb, evalrun, chat>>

(***************************************************************************)
(* SpecEvaluators: evaluators saved, looked up and deleted                 *)
(***************************************************************************)
EvaluatorInputs ==
    {[id |-> i, description |-> t] : i \in EvaluatorIds \cup {None}, t \in {"d1", "d2"}}

InitEvaluatorStore ==
    /\ InitRunService /\ InitEval /\ InitBridge
    /\ cb = InitCallbacks
    /\ evalrun = EvalRunOf("r1", <<>>, "pending", NoTime, NoTime, <<>>, NoError,
                           Options(1, <<>>, None))
    /\ ret = Returned("none", [evaluator_id |-> None])
    /\ chat = InitChat
    /\ files = InitEvaluators

NextEvaluators ==
    \/ \E i \in EvaluatorIds, data \in EvaluatorInputs, order \in Orderings(EvaluatorIds) :
          SaveEvaluatorCall(i, data, order)
    \/ \E i \in EvaluatorIds, order \in Orderings(EvaluatorIds) : LoadEvaluatorCall(i, order)
    \/ \E i \in EvaluatorIds : DeleteEvaluatorCall(i)

SpecEvaluators == InitEvaluatorStore /\ [][NextEvaluators]_vars

\* C38: after delete_evaluator(id) has returned, load_evaluator(id) returns
\* None; and when load_evaluator(id) found an evaluator before the call,
\* delete_evaluator(id) returned True.
C38_DeleteConsistentWithLookup ==
    ret.op = "delete_evaluator" =>
        /\ \A order \in Orderings(EvaluatorIds) :
               LoadEvaluator(files, ret.value.evaluator_id, order) = NoEvaluator
        /\ ret.value.found => ret.value.deleted

====
